---- MODULE Spec2Model ----
(***************************************************************************)
(* A model of ai_cost_guard's analytical core: guardrail enforcement       *)
(* (core/guardrails.py), anomaly detection (core/anomaly.py) and baseline  *)
(* computation (core/baseline.py).                                         *)
(*                                                                         *)
(* The core is a set of synchronous functions.  Each is modelled as one    *)
(* atomic action that draws the call's arguments from a bounded set and    *)
(* records the arguments and the outcome (a returned value or a raised     *)
(* exception); Reset returns to the caller, which may call again.          *)
(*                                                                         *)
(* Numbers.  The code's floats are held in fixed point: a float x is the   *)
(* integer x * Unit.  Every cost of an event is a whole number of cost     *)
(* units, so that the products with 1.5, 1.7 and 1.3 and the linear        *)
(* interpolation of a percentile (a multiple of 1/100 of a difference of   *)
(* costs) are exact integers and every division below is exact.  The       *)
(* rounding of doubles is modelled where it decides a result: in the       *)
(* monthly impact of the simulation and in the position of a percentile.   *)
(* Token and retry counts are the code's ints.  Timestamps are whole days. *)
(*                                                                         *)
(* Optional values: None is the empty tuple << >>, a present value v is    *)
(* the one-element tuple <<v>>.                                            *)
(***************************************************************************)
EXTENDS Integers, Sequences, FiniteSets, TLC

VARIABLES
    pc,      \* "idle": no call in progress; "done": the call in args has ended
    args,    \* the arguments of the last call, args.op names the function
    result,  \* the outcome of the last call
    table,   \* the table llm_usage_event exists in the database
    ledger   \* the rows of llm_usage_event, in the order of their ids

vars == <<pc, args, result, table, ledger>>

\* the database
db == <<table, ledger>>

----------------------------------------------------------------------------
(* Optional values *)

None == << >>

Some(v) == <<v>>

IsNone(x) == x = << >>

Val(x) == x[1]

----------------------------------------------------------------------------
(* Fixed point *)

\* the float 1.0; cost c of the code is the integer c * Unit
Unit == 1000

\* the float of an int
Float(n) == n * Unit

\* x * (tenths / 10) for a float x, as in p90_cost * 1.5
TimesTenths(x, tenths) == (x * tenths) \div 10

----------------------------------------------------------------------------
(* Bounds of the model *)

\* the cost of the current event of enforce_guardrails is 0..MaxCost units
MaxCost == 2

\* the anomaly list handed to enforce_guardrails has at most MaxAnomalies entries
MaxAnomalies == 2

----------------------------------------------------------------------------
(* core/guardrails.py *)

EnforcementAction == {"ALLOW", "WARN", "DOWNGRADE", "THROTTLE", "BLOCK"}

\* EnforcementAction.<name>.value: auto() numbers the members 1, 2, ... in
\* declaration order
ActionValue(a) ==
    CASE a = "ALLOW" -> 1
      [] a = "WARN" -> 2
      [] a = "DOWNGRADE" -> 3
      [] a = "THROTTLE" -> 4
      [] a = "BLOCK" -> 5

AnomalySeverity == {"WARNING", "CRITICAL"}

BaselineState == {"COLD", "WARM"}

\* action_taken = ALLOW, message = ""
InitialAction == [action |-> "ALLOW", message |-> [check |-> "none"]]

\* a mutation of _update_action: the new action always replaces the current one
UpdateActionOverwrite(st, new_action, new_message) ==
    [action |-> new_action, message |-> new_message]

\* a mutation of _update_action: an equally severe action replaces the
\* current one and its message
UpdateActionOnTie(st, new_action, new_message) ==
    IF ActionValue(new_action) >= ActionValue(st.action)
    THEN [action |-> new_action, message |-> new_message]
    ELSE st

\* _update_action: the new action replaces the current one only when it is
\* strictly more severe
UpdateAction(st, new_action, new_message) ==
    IF ActionValue(new_action) > ActionValue(st.action)
    THEN [action |-> new_action, message |-> new_message]
    ELSE st

\* a mutation of the ceiling check: a cost equal to the limit triggers it too
CeilingFiresAtLimit(config, current_event) ==
    /\ ~IsNone(config.max_cost_per_request)
    /\ Val(current_event.estimated_cost) >= Val(config.max_cost_per_request)

\* 1. the per-request ceiling fires
CeilingFires(config, current_event) ==
    /\ ~IsNone(config.max_cost_per_request)
    /\ Val(current_event.estimated_cost) > Val(config.max_cost_per_request)

CeilingCheck(st, config, current_event) ==
    IF CeilingFires(config, current_event)
    THEN UpdateAction(st, "BLOCK",
             [check |-> "max_cost", cost |-> Val(current_event.estimated_cost),
              limit |-> Val(config.max_cost_per_request)])
    ELSE st

\* a mutation of the budget check: a remaining amount of exactly 0 is no breach
BudgetBreachedBelowZero(config, budget_state) ==
    /\ ~IsNone(config.budget_limit)
    /\ budget_state.amount_remaining < 0

\* 2. the budget is breached
BudgetBreached(config, budget_state) ==
    /\ ~IsNone(config.budget_limit)
    /\ budget_state.amount_remaining <= 0

BudgetCheck(st, config, budget_state) ==
    IF BudgetBreached(config, budget_state)
    THEN UpdateAction(st, config.on_budget_breach,
             [check |-> "budget", limit |-> Val(config.budget_limit),
              used |-> budget_state.amount_used])
    ELSE st

\* the body of the loop over the anomalies, for one anomaly
AnomalyStep(st, config, anomaly) ==
    IF anomaly.severity = "CRITICAL"
    THEN UpdateAction(st, config.on_critical_anomaly,
             [check |-> "critical", anomaly |-> anomaly.message])
    ELSE IF anomaly.severity = "WARNING"
    THEN UpdateAction(st, config.on_warning_anomaly,
             [check |-> "warning", anomaly |-> anomaly.message])
    ELSE st

\* for anomaly in anomalies: the first k anomalies, in list order
RECURSIVE AnomalyLoop(_, _, _, _)
AnomalyLoop(st, config, anomalies, k) ==
    IF k = 0 THEN st
    ELSE AnomalyStep(AnomalyLoop(st, config, anomalies, k - 1), config, anomalies[k])

\* a mutation of the anomaly check: the baseline's state is not looked at
AnomaliesEnforcedAlways(baseline) == TRUE

\* 3. anomalies are enforced only for a WARM baseline
AnomaliesEnforced(baseline) == baseline.state = "WARM"

AnomalyCheck(st, config, baseline, anomalies) ==
    IF AnomaliesEnforced(baseline)
    THEN AnomalyLoop(st, config, anomalies, Len(anomalies))
    ELSE st

\* a mutation of the final test: only BLOCK raises
IsBlockingOnlyBlock(action) == action = "BLOCK"

\* the actions that raise GuardrailViolation
IsBlocking(action) == action \in {"BLOCK", "THROTTLE"}

\* the cumulative action and message after the three checks
ResolvedAction(config, baseline, current_event, anomalies, budget_state) ==
    AnomalyCheck(
        BudgetCheck(
            CeilingCheck(InitialAction, config, current_event),
            config, budget_state),
        config, baseline, anomalies)

\* enforce_guardrails: raises GuardrailViolation(message, action) or returns
\* the action
enforce_guardrails(config, baseline, current_event, anomalies, budget_state) ==
    LET st == ResolvedAction(config, baseline, current_event, anomalies, budget_state)
    IN  IF IsBlocking(st.action)
        THEN [kind |-> "raise", exception |-> "GuardrailViolation",
              action |-> st.action, message |-> st.message]
        ELSE [kind |-> "return", action |-> st.action]

----------------------------------------------------------------------------
(* core/anomaly.py *)

\* Rule A: cost > 1.5 * P90 cost
CostSpikeTenths == 15

\* Rule B: tokens > 1.7 * median tokens
TokenExplosionTenths == 17

\* Rule C: cost * retries > 1.3 * P90 cost
RetryAmplificationTenths == 13

\* a mutation of rule A's comparison: a cost equal to the threshold fires
ExceedsOrEquals(observed, threshold) == observed >= threshold

\* observed > threshold, the comparison of rule A
CostExceeds(observed, threshold) == observed > threshold

\* a mutation of rule B's comparison: a count equal to the threshold fires
TokensExceedOrEqual(observed, threshold) == Float(observed) >= threshold

\* observed > threshold, the comparison of rule B (an int against a float)
TokensExceed(observed, threshold) == Float(observed) > threshold

\* a mutation of rule C's guard: one retry is enough
RetriedAtLeastOnce(retry_count) == retry_count >= 1

\* current_event.retry_count > 1
Retried(retry_count) == retry_count > 1

\* Rule A: Cost Spike (CRITICAL).  baseline.metrics.p90_cost is not None holds
\* of every BaselineMetrics: its __post_init__ compares each field with 0.
RuleA(feature, model, metrics, current_event) ==
    LET threshold == TimesTenths(metrics.p90_cost, CostSpikeTenths)
        cost == Val(current_event.estimated_cost)
    IN  IF CostExceeds(cost, threshold)
        THEN << [feature |-> feature, model |-> model, rule |-> "A",
                 severity |-> "CRITICAL", observed_value |-> cost,
                 baseline_value |-> metrics.p90_cost, threshold |-> threshold,
                 message |-> <<"Cost spike detected", cost, metrics.p90_cost, threshold>>] >>
        ELSE << >>

\* Rule B: Token Explosion (WARNING)
RuleB(feature, model, metrics, current_event) ==
    LET threshold == TimesTenths(Float(metrics.median_tokens), TokenExplosionTenths)
        tokens == Val(current_event.total_tokens)
    IN  IF TokensExceed(tokens, threshold)
        THEN << [feature |-> feature, model |-> model, rule |-> "B",
                 severity |-> "WARNING", observed_value |-> tokens,
                 baseline_value |-> metrics.median_tokens, threshold |-> threshold,
                 message |-> <<"High token usage", tokens, metrics.median_tokens, threshold>>] >>
        ELSE << >>

\* Rule C: Retry Amplification (WARNING)
RuleC(feature, model, metrics, current_event) ==
    IF Retried(Val(current_event.retry_count))
    THEN LET threshold == TimesTenths(metrics.p90_cost, RetryAmplificationTenths)
             total_cost == Val(current_event.estimated_cost) * Val(current_event.retry_count)
         IN  IF total_cost > threshold
             THEN << [feature |-> feature, model |-> model, rule |-> "C",
                      severity |-> "WARNING", observed_value |-> total_cost,
                      baseline_value |-> metrics.p90_cost, threshold |-> threshold,
                      message |-> <<"Retry amplification", total_cost,
                                    Val(current_event.estimated_cost),
                                    Val(current_event.retry_count), threshold,
                                    metrics.p90_cost>>] >>
             ELSE << >>
    ELSE << >>

\* a mutation of the COLD test: the event is validated before the baseline's
\* state is looked at
SkipsDetectionAfterValidation(baseline, current_event) ==
    /\ baseline.state = "COLD"
    /\ ~IsNone(current_event.estimated_cost)
    /\ ~IsNone(current_event.total_tokens)
    /\ ~IsNone(current_event.retry_count)

\* if baseline.state == BaselineState.COLD: return []
SkipsDetection(baseline, current_event) == baseline.state = "COLD"

\* rules chained with elif: the first rule that fires is the only one reported
FirstRuleOnly(a, b, c) == IF a # << >> THEN a ELSE IF b # << >> THEN b ELSE c

\* anomalies = [] and the append of each rule, in the order of the rules
Accumulated(a, b, c) == a \o b \o c

\* detect_anomalies: returns the list of anomalies, or raises ValueError for a
\* missing field of the event, or AttributeError when a WARM baseline has no
\* metrics (baseline.metrics.p90_cost of None)
detect_anomalies(feature, model, baseline, current_event) ==
    IF SkipsDetection(baseline, current_event)
    THEN [kind |-> "return", anomalies |-> << >>]
    ELSE IF IsNone(current_event.estimated_cost)
    THEN [kind |-> "raise", exception |-> "ValueError",
          message |-> "Current event missing estimated_cost"]
    ELSE IF IsNone(current_event.total_tokens)
    THEN [kind |-> "raise", exception |-> "ValueError",
          message |-> "Current event missing total_tokens"]
    ELSE IF IsNone(current_event.retry_count)
    THEN [kind |-> "raise", exception |-> "ValueError",
          message |-> "Current event missing retry_count"]
    ELSE IF IsNone(baseline.metrics)
    THEN [kind |-> "raise", exception |-> "AttributeError",
          message |-> "'NoneType' object has no attribute 'p90_cost'"]
    ELSE LET metrics == Val(baseline.metrics)
         IN  [kind |-> "return",
              anomalies |-> Accumulated(RuleA(feature, model, metrics, current_event),
                                        RuleB(feature, model, metrics, current_event),
                                        RuleC(feature, model, metrics, current_event))]

----------------------------------------------------------------------------
(* Doubles.  A cost of the model is a whole number of units, which a double *)
(* holds exactly; a quotient or a sum of doubles is rounded to 53 bits, to  *)
(* the nearest, ties to even.  A double of the simulation's results is the  *)
(* record [fixed, eps]: the value fixed / Unit + eps * 2^-52.               *)

\* b^k mod m
RECURSIVE PowMod(_, _, _)
PowMod(b, k, m) ==
    IF k = 0 THEN 1 % m
    ELSE LET half == PowMod(b, k \div 2, m)
         IN  IF k % 2 = 0 THEN (half * half) % m ELSE (half * half * b) % m

\* 2^k
RECURSIVE Pow2(_)
Pow2(k) == IF k = 0 THEN 1 ELSE 2 * Pow2(k - 1)

\* the exponent of a whole number c >= 1: 2^Exponent(c) <= c < 2^(Exponent(c) + 1)
RECURSIVE Exponent(_)
Exponent(c) == IF c < 2 THEN 0 ELSE 1 + Exponent(c \div 2)

\* the bits of the fraction of a double
FractionBits == 52

\* the double of a whole number
Double(c) == [fixed |-> Float(c), eps |-> 0]

\* (c / days) * days for a whole number c >= 0 and 16 <= days < 32.
\* The quotient q = c / days has the exponent e, which is E - 4 or E - 5 for
\* E = Exponent(c); its significand is c * 2^(52 - e) / days rounded to an
\* integer Q, so that Q * days = c * 2^(52 - e) + d with -days/2 <= d <=
\* days/2, and q * days = c + d * 2^(e - 52) before its rounding.  One ulp of
\* c is 2^(E - 52): the product is d/16 or d/32 ulps away from c, and is
\* rounded to c unless e = E - 4 and d is beyond 8 (at 8, the tie goes to c,
\* whose significand is even).
TimesAfterDivided(c, days) ==
    IF c = 0 THEN Double(0)
    ELSE
    LET E == Exponent(c)
        e == IF 16 * c >= days * Pow2(E) THEN E - 4 ELSE E - 5
        \* c * 2^(52 - e) modulo 2 * days: the remainder and the parity of
        \* the quotient
        n == ((c % (2 * days)) * PowMod(2, FractionBits - e, 2 * days)) % (2 * days)
        r == n % days
        odd == n >= days
        up == 2 * r > days \/ (2 * r = days /\ odd)
        d == IF up THEN days - r ELSE 0 - r
        ulps == IF e = E - 5 THEN 0
                ELSE IF d > 8 THEN 1 ELSE IF d < 0 - 8 THEN 0 - 1 ELSE 0
    IN  [fixed |-> Float(c), eps |-> ulps * Pow2(E)]

\* x + y for doubles x, y >= 0 of the model: the exact sum has the whole part
\* c and the rest t * 2^-52; t is rounded to a multiple of the ulp of the sum
DoubleSum(x, y) ==
    LET c == (x.fixed + y.fixed) \div Unit
        t == x.eps + y.eps
    IN  IF c = 0 THEN [fixed |-> 0, eps |-> 0]
        ELSE
        LET E == IF t < 0 /\ c = Pow2(Exponent(c)) THEN Exponent(c) - 1 ELSE Exponent(c)
            ulp == Pow2(E)
            down == t \div ulp
            rest == t % ulp
            up == 2 * rest > ulp \/ (2 * rest = ulp /\ down % 2 # 0)
        IN  [fixed |-> Float(c), eps |-> (IF up THEN down + 1 ELSE down) * ulp]

\* sum(...) of a list of doubles, from the left, starting with 0
RECURSIVE DoubleSumOf(_, _)
DoubleSumOf(xs, k) ==
    IF k = 0 THEN Double(0) ELSE DoubleSum(DoubleSumOf(xs, k - 1), xs[k])

----------------------------------------------------------------------------
(* core/baseline.py *)

\* the time window: timedelta(days=7)
WindowDays == 7

\* the event limit of the sample
EventLimit == 200

\* the least sample size of a WARM baseline
WarmSampleCount == 20

\* the smallest element of a non-empty set of integers
SetMin(S) == CHOOSE x \in S : \A y \in S : x <= y

\* an element of a non-empty set of integers with as many smaller elements
\* as larger ones, or one more
Middle(S) == CHOOSE p \in S : Cardinality({x \in S : x < p}) = Cardinality(S) \div 2

\* the events with the timestamps of K, timestamp after timestamp from the
\* newest down, the events of one timestamp in the order of the input
RECURSIVE ByKeyDescending(_, _)
ByKeyDescending(events, K) ==
    IF K = {} THEN << >>
    ELSE LET k == Middle(K)
         IN  ByKeyDescending(events, {x \in K : x > k})
             \o SelectSeq(events, LAMBDA e : e.timestamp = k)
             \o ByKeyDescending(events, {x \in K : x < k})

\* sorted(events, key=lambda e: e.timestamp, reverse=True): Python's sort is
\* stable, and with reverse=True events of equal timestamp keep the order of
\* the input
SortedNewestFirst(events) ==
    ByKeyDescending(events, {events[i].timestamp : i \in 1..Len(events)})

\* a comparison that also breaks the loop at an event exactly seven days old
TooOldAtCutoff(sorted_events, seven_days_ago) ==
    {i \in 1..Len(sorted_events) : sorted_events[i].timestamp <= seven_days_ago}

\* the positions of sorted_events the loop does not reach: those of the
\* events older than seven_days_ago (the first of them breaks the loop) ...
TooOld(sorted_events, seven_days_ago) ==
    {i \in 1..Len(sorted_events) : sorted_events[i].timestamp < seven_days_ago}

\* a loop without the check of the window: only the limit ends it
FilterLoopWithoutWindow(sorted_events, seven_days_ago) ==
    SubSeq(sorted_events, 1,
           IF Len(sorted_events) >= EventLimit THEN EventLimit ELSE Len(sorted_events))

\* ... so the loop appends the events before the first too old one, and
\* breaks once EventLimit of them are appended
FilterLoop(sorted_events, seven_days_ago) ==
    LET old == TooOld(sorted_events, seven_days_ago)
        reached == IF old = {} THEN Len(sorted_events) ELSE SetMin(old) - 1
    IN  SubSeq(sorted_events, 1, IF reached >= EventLimit THEN EventLimit ELSE reached)

\* filtered_events: the sample
FilteredEvents(events, now) ==
    FilterLoop(SortedNewestFirst(events), now - WindowDays)

\* the values of V in ascending order, each as often as it occurs in values
RECURSIVE ByValueAscending(_, _)
ByValueAscending(values, V) ==
    IF V = {} THEN << >>
    ELSE LET v == Middle(V)
         IN  ByValueAscending(values, {x \in V : x < v})
             \o SelectSeq(values, LAMBDA x : x = v)
             \o ByValueAscending(values, {x \in V : x > v})

\* sorted(values)
SortedValues(values) ==
    ByValueAscending(values, {values[i] : i \in 1..Len(values)})

\* the value at the floor of the position, without the interpolation
PercentileAtFloor(values, percentile) ==
    SortedValues(values)[(percentile * (Len(values) - 1)) \div 100 + 1]

\* the interpolation of _compute_exact_percentile for a non-empty list and
\* 0 <= percentile <= 100.  position = (percentile / 100.0) * (n - 1) is held
\* in hundredths; lists are indexed from 1 here, from 0 in the code.
PercentileValue(values, percentile) ==
    LET sorted_values == SortedValues(values)
        n == Len(sorted_values)
        position_x100 == percentile * (n - 1)
        lower_index == position_x100 \div 100
        upper_index == IF lower_index + 1 < n - 1 THEN lower_index + 1 ELSE n - 1
        fraction_x100 == position_x100 - 100 * lower_index
        lower_value == sorted_values[lower_index + 1]
        upper_value == sorted_values[upper_index + 1]
    IN  lower_value + (fraction_x100 * (upper_value - lower_value)) \div 100

\* the least s with percentile * 2^s >= 100, for 1 <= percentile <= 100
RECURSIVE Shift(_)
Shift(percentile) == IF percentile >= 100 THEN 0 ELSE 1 + Shift(2 * percentile)

\* position = (percentile / 100.0) * (n - 1) where percentile * (n - 1) / 100
\* is a whole number k: the double position is k, or one ulp of k above (1) or
\* below (-1).  With s = Shift(percentile) the quotient percentile / 100.0 is
\* (percentile * 2^(52 + s) + d) / 100 * 2^-(52 + s) for the rounding d of
\* its significand, -50 < d < 50; times m = n - 1 that is k and
\* d * m / (100 * 2^(E + s)) ulps of k, E = Exponent(k), which is less than
\* one ulp and is rounded to the nearest.  Below a power of two the ulps are
\* half as large.
PositionError(percentile, n) ==
    LET m == n - 1
        k == (percentile * m) \div 100
    IN  IF percentile = 0 \/ m = 0 \/ (percentile * m) % 100 # 0 THEN 0
        ELSE
        LET s == Shift(percentile)
            r == (percentile * PowMod(2, FractionBits + s, 100)) % 100
            d == IF r > 50 THEN 100 - r ELSE 0 - r
            E == Exponent(k)
            den == 100 * Pow2(E + s)
        IN  IF 2 * d * m > den THEN 1
            ELSE IF k = Pow2(E) /\ 4 * (0 - d) * m > den THEN 0 - 1
            ELSE IF k # Pow2(E) /\ 2 * (0 - d) * m > den THEN 0 - 1
            ELSE 0

\* the difference itself, as for a fraction of one
WholeDifference(fraction, difference) == Double(difference)

\* fraction * (upper_value - lower_value) for a fraction of one ulp, or of
\* one less an ulp, and a whole difference: exact for a fraction below one
\* and for a power of two, else rounded
FractionTimes(fraction, difference) ==
    IF difference = 0 THEN Double(0)
    ELSE IF fraction.fixed = 0 \/ difference = Pow2(Exponent(difference))
    THEN [fixed |-> fraction.fixed * difference, eps |-> fraction.eps * difference]
    ELSE DoubleSum([fixed |-> fraction.fixed * difference, eps |-> 0],
                   [fixed |-> 0, eps |-> fraction.eps * difference])

\* lower_value + fraction * (upper_value - lower_value) where the double
\* position is an ulp away from the whole number k: above it, the values
\* k and k + 1 of the sorted list bracket it and the fraction is the ulp;
\* below it, the values k - 1 and k do and the fraction is one less the ulp
PercentileBeside(values, percentile, error) ==
    LET sorted_values == SortedValues(values)
        k == (percentile * (Len(sorted_values) - 1)) \div 100
        E == Exponent(k)
        lower_index == IF error > 0 THEN k ELSE k - 1
        lower_value == sorted_values[lower_index + 1] \div Unit
        upper_value == sorted_values[lower_index + 2] \div Unit
        fraction == IF error > 0 THEN [fixed |-> 0, eps |-> Pow2(E)]
                    ELSE [fixed |-> Unit,
                          eps |-> 0 - (IF k = Pow2(E) THEN Pow2(E - 1) ELSE Pow2(E))]
        product == FractionTimes(fraction, upper_value - lower_value)
    IN  IF lower_value = 0 THEN product ELSE DoubleSum(Double(lower_value), product)

\* _compute_exact_percentile: the double returned for a list of whole
\* numbers of units.  Where the position is a whole number, or the double
\* beside one, the value is the double the code returns; at any other
\* position it is the interpolation in fixed point.
compute_exact_percentile(values, percentile) ==
    IF values = << >>
    THEN [kind |-> "raise", exception |-> "ValueError",
          message |-> "Values list cannot be empty"]
    ELSE IF percentile < 0 \/ percentile > 100
    THEN [kind |-> "raise", exception |-> "ValueError",
          message |-> "Percentile must be between 0 and 100"]
    ELSE IF PositionError(percentile, Len(values)) = 0
    THEN [kind |-> "return",
          value |-> [fixed |-> PercentileValue(values, percentile), eps |-> 0]]
    ELSE [kind |-> "return",
          value |-> PercentileBeside(values, percentile,
                                     PositionError(percentile, Len(values)))]

\* int(x) of a float x >= 0
IntOf(x) == x \div Unit

\* BaselineMetrics(...) with its __post_init__
NewBaselineMetrics(median_cost, p90_cost, median_tokens, sample_count) ==
    IF median_cost < 0
    THEN [kind |-> "raise", exception |-> "ValueError",
          message |-> "median_cost cannot be negative"]
    ELSE IF p90_cost < 0
    THEN [kind |-> "raise", exception |-> "ValueError",
          message |-> "p90_cost cannot be negative"]
    ELSE IF median_tokens < 0
    THEN [kind |-> "raise", exception |-> "ValueError",
          message |-> "median_tokens cannot be negative"]
    ELSE IF sample_count < 0
    THEN [kind |-> "raise", exception |-> "ValueError",
          message |-> "sample_count cannot be negative"]
    ELSE [kind |-> "return",
          value |-> [median_cost |-> median_cost, p90_cost |-> p90_cost,
                     median_tokens |-> median_tokens, sample_count |-> sample_count]]

\* BaselineResult(...) with its __post_init__
NewBaselineResult(metrics, state, window_start, window_end) ==
    IF window_start > window_end
    THEN [kind |-> "raise", exception |-> "ValueError",
          message |-> "window_start must be before window_end"]
    ELSE [kind |-> "return", metrics |-> Some(metrics), state |-> state,
          window_start |-> window_start, window_end |-> window_end]

\* a sample of exactly WarmSampleCount events counted as too small
StateOfSampleAbove(filtered_events) ==
    IF Len(filtered_events) > WarmSampleCount THEN "WARM" ELSE "COLD"

\* the state of the baseline, from the size of the sample
StateOfSample(filtered_events) ==
    IF Len(filtered_events) >= WarmSampleCount THEN "WARM" ELSE "COLD"

\* the positions (from 0) of the events without a cost
MissingCost(events) == {i \in 0..(Len(events) - 1) : IsNone(events[i + 1].estimated_cost)}

\* compute_baseline, with datetime.now() = now
compute_baseline(events, now) ==
    IF events = << >>
    THEN [kind |-> "raise", exception |-> "ValueError",
          message |-> "Events list cannot be empty"]
    ELSE IF MissingCost(events) # {}
    THEN [kind |-> "raise", exception |-> "ValueError",
          message |-> <<"Event at index missing estimated_cost", SetMin(MissingCost(events))>>]
    ELSE
    LET filtered_events == FilteredEvents(events, now)
    IN  IF filtered_events = << >>
        THEN [kind |-> "raise", exception |-> "ValueError",
              message |-> "No events found within 7-day window"]
        ELSE
        LET n == Len(filtered_events)
            state == StateOfSample(filtered_events)
            costs == [i \in 1..n |-> Val(filtered_events[i].estimated_cost)]
            tokens == [i \in 1..n |-> Float(Val(filtered_events[i].total_tokens))]
            median_cost == PercentileValue(costs, 50)
            p90_cost == PercentileValue(costs, 90)
            median_tokens == PercentileValue(tokens, 50)
            window_end == filtered_events[1].timestamp
            window_start == filtered_events[n].timestamp
            metrics == NewBaselineMetrics(median_cost, p90_cost, IntOf(median_tokens), n)
        IN  IF metrics.kind = "raise" THEN metrics
            ELSE NewBaselineResult(metrics.value, state, window_start, window_end)

----------------------------------------------------------------------------
(* storage/repository.py: the database is the pair <<table, ledger>> *)

\* get_recent_events(limit=1000)
FetchLimit == 1000

\* the table of the usage events
TableName == "llm_usage_event"

\* sqlite3.OperationalError of a statement on a database without the table
NoSuchTableError ==
    [kind |-> "raise", exception |-> "OperationalError",
     message |-> <<"no such table", TableName>>]

\* the errors sqlite3 raises for a database in the condition fault: busy
\* (another connection holds the lock) or corrupt (the file is no database)
StoreError(fault) ==
    IF fault = "busy"
    THEN [kind |-> "raise", exception |-> "OperationalError",
          message |-> <<"database is locked">>]
    ELSE [kind |-> "raise", exception |-> "DatabaseError",
          message |-> <<"file is not a database">>]

\* the WHERE clause of get_recent_events: a filter that is None (or empty)
\* adds no condition
Selected(row, feature, model, cutoff) ==
    /\ IsNone(feature) \/ row.feature = Val(feature)
    /\ IsNone(model) \/ row.model = Val(model)
    /\ IsNone(cutoff) \/ row.timestamp >= Val(cutoff)

\* the first limit elements of a list
Limited(rows, limit) == SubSeq(rows, 1, IF Len(rows) >= limit THEN limit ELSE Len(rows))

\* UsageRepository.get_recent_events on the database database, with
\* datetime.now() = now.  ORDER BY timestamp DESC gives rows of equal
\* timestamp in the order of their ids.
get_recent_events(database, fault, feature, model, days, limit, now) ==
    IF fault # "none" THEN StoreError(fault)
    ELSE IF ~database[1] THEN NoSuchTableError
    ELSE LET cutoff == IF IsNone(days) THEN None ELSE Some(now - Val(days))
             rows == SelectSeq(database[2], LAMBDA row : Selected(row, feature, model, cutoff))
         IN  [kind |-> "return", events |-> Limited(SortedNewestFirst(rows), limit)]

\* the columns declared NOT NULL without a default that the event leaves empty
MissingColumns(event) ==
    {c \in {"estimated_cost", "total_tokens", "retry_count"} : IsNone(event[c])}

\* an INSERT that adds the row twice
InsertRowTwice(rows, event) ==
    IF MissingColumns(event) # {}
    THEN [kind |-> "raise", exception |-> "IntegrityError",
          message |-> <<"NOT NULL constraint failed", TableName>>]
    ELSE [kind |-> "return", rows |-> Append(Append(rows, event), event)]

\* one INSERT statement inside a connection: the rows after it, or the error
InsertRow(rows, event) ==
    IF MissingColumns(event) # {}
    THEN [kind |-> "raise", exception |-> "IntegrityError",
          message |-> <<"NOT NULL constraint failed", TableName>>]
    ELSE [kind |-> "return", rows |-> Append(rows, event)]

\* insert_usage_event: the outcome of the call and the database after it
insert_usage_event(database, fault, event) ==
    IF fault # "none" THEN [outcome |-> StoreError(fault), database |-> database]
    ELSE IF ~database[1] THEN [outcome |-> NoSuchTableError, database |-> database]
    ELSE LET inserted == InsertRow(database[2], event)
         IN  IF inserted.kind = "raise"
             THEN [outcome |-> inserted, database |-> database]
             ELSE [outcome |-> [kind |-> "return"],
                   database |-> <<database[1], inserted.rows>>]

\* the loop of insert_usage_events over the first k events: the rows inside
\* the transaction, and the error of the INSERT that ended the loop, if any
RECURSIVE InsertLoop(_, _, _)
InsertLoop(rows, events, k) ==
    IF k = 0 THEN [kind |-> "return", rows |-> rows]
    ELSE LET before == InsertLoop(rows, events, k - 1)
             inserted == InsertRow(before.rows, events[k])
         IN  IF before.kind = "raise" THEN before
             ELSE IF inserted.kind = "raise"
             THEN [kind |-> "raise", error |-> inserted, rows |-> before.rows]
             ELSE inserted

\* a transaction whose rollback is missing: the rows inserted before the
\* failing INSERT stay
CommittedWithoutRollback(rows, looped) == looped.rows

\* the rows a transaction leaves behind: commit() keeps the rows of the
\* loop, rollback() those from before BEGIN TRANSACTION
Committed(rows, looped) == IF looped.kind = "raise" THEN rows ELSE looped.rows

\* insert_usage_events: the outcome of the call and the database after it
insert_usage_events(database, fault, events) ==
    IF events = << >> THEN [outcome |-> [kind |-> "return"], database |-> database]
    ELSE IF fault # "none" THEN [outcome |-> StoreError(fault), database |-> database]
    ELSE IF ~database[1] THEN [outcome |-> NoSuchTableError, database |-> database]
    ELSE LET looped == InsertLoop(database[2], events, Len(events))
         IN  [outcome |-> IF looped.kind = "raise" THEN looped.error
                          ELSE [kind |-> "return"],
              database |-> <<database[1], Committed(database[2], looped)>>]

\* a read that deletes the rows it does not return
AfterReadPruned(database, rows) == <<database[1], rows>>

\* the database after get_recent_events or fetch_recent_usage_events returned
\* rows: the connection executes one SELECT and is closed
AfterRead(database, rows) == database

\* fetch_recent_usage_events(limit=100)
DefaultFetchLimit == 100

\* fetch_recent_usage_events
fetch_recent_usage_events(database, fault, feature, model, limit) ==
    IF fault # "none" THEN StoreError(fault)
    ELSE IF ~database[1] THEN NoSuchTableError
    ELSE LET rows == SelectSeq(database[2], LAMBDA row : Selected(row, feature, model, None))
         IN  [kind |-> "return", events |-> Limited(SortedNewestFirst(rows), limit)]

----------------------------------------------------------------------------
(* core/simulation.py *)

\* get_recent_events(feature=feature, days=30)
LookbackDays == 30

\* sum(...) / 30 and daily_avg * 30
DaysPerMonth == 30

\* len(events) < 3: the least size of a WARM group
WarmGroupSize == 3

\* float('inf'): larger than every amount of the model
Infinity == 2147483647

SimulationVerdict == {"PASS", "WARN", "FAIL"}

\* the result without events
TrivialResult ==
    [kind |-> "return", per_feature_results |-> << >>, overall_verdict |-> "PASS",
     estimated_monthly_impact |-> Double(0)]

\* a test that holds of the message of every error
IsAnyMessage(message) == TRUE

\* "no such table" in str(e).lower()
IsNoSuchTable(message) == message[1] = "no such table"

\* a key made of the feature alone
FeatureKey(event) == <<event.feature, event.feature>>

\* the key of the dictionary events_by_feature
GroupKey(event) == <<event.feature, event.model>>

\* the keys of events_by_feature in the order of their insertion: the keys
\* of the events that are the first of their group
GroupKeys(events) ==
    LET positions == [i \in 1..Len(events) |-> i]
        first == SelectSeq(positions,
                     LAMBDA i : \A j \in 1..(i - 1) : GroupKey(events[j]) # GroupKey(events[i]))
    IN  [k \in 1..Len(first) |-> GroupKey(events[first[k]])]

\* events_by_feature[key]: the events of the key, in the order of events
GroupEvents(events, key) == SelectSeq(events, LAMBDA event : GroupKey(event) = key)

\* min(...) and max(...) of the timestamps
MinTimestamp(events) == SetMin({events[i].timestamp : i \in 1..Len(events)})

MaxTimestampOf(events) == 0 - SetMin({0 - events[i].timestamp : i \in 1..Len(events)})

\* the index of the lower of the two middle values, from 0
LowerMedianIndex(n) == (n - 1) \div 2

\* len(costs)//2, from 0
MedianIndex(n) == n \div 2

\* the index at eight tenths of the length, from 0
EightTenthsIndex(n) == (n * 8) \div 10

\* int(len(costs) * 0.9), from 0
P90Index(n) == (n * 9) \div 10

\* _create_baseline_from_events for a non-empty list
create_baseline_from_events(events) ==
    IF Len(events) < WarmGroupSize
    THEN [kind |-> "return", metrics |-> None, state |-> "COLD",
          window_start |-> MinTimestamp(events), window_end |-> MaxTimestampOf(events)]
    ELSE LET n == Len(events)
             costs == SortedValues([i \in 1..n |-> Val(events[i].estimated_cost)])
             tokens == SortedValues([i \in 1..n |-> Val(events[i].total_tokens)])
             metrics == NewBaselineMetrics(costs[MedianIndex(n) + 1], costs[P90Index(n) + 1],
                                           tokens[MedianIndex(n) + 1], n)
         IN  IF metrics.kind = "raise" THEN metrics
             ELSE NewBaselineResult(metrics.value, "WARM",
                                    MinTimestamp(events), MaxTimestampOf(events))

\* BudgetState(amount_used=0, amount_remaining=float('inf'), budget_period_days=30)
UnlimitedBudget ==
    [amount_used |-> 0, amount_remaining |-> Infinity, budget_period_days |-> DaysPerMonth]

\* a handler that swallows the exception
CapturedNothing(e) == << >>

\* except Exception as e: violations.append((e.action, str(e)))
Captured(e) == << <<e.action, e.message>> >>

\* if baseline.state == BaselineState.COLD: return violations
SkipsEnforcement(baseline) == baseline.state = "COLD"

\* _simulate_enforcement: the list of the violations, pairs of an action and
\* a message
simulate_enforcement(config, baseline, current_event, anomalies) ==
    IF SkipsEnforcement(baseline) THEN << >>
    ELSE LET enforced == enforce_guardrails(config, baseline, current_event, anomalies,
                                            UnlimitedBudget)
         IN  IF enforced.kind = "raise"
             THEN Captured(enforced)
             ELSE IF enforced.action # "ALLOW"
             THEN << <<enforced.action, <<"Simulated", enforced.action>> >> >>
             ELSE << >>

\* the actions of the violations of all results
RecordedActions(results) ==
    UNION {{results[i].violations[j][1] : j \in 1..Len(results[i].violations)} :
              i \in 1..Len(results)}

\* a verdict in which a warning outweighs a blocking violation
VerdictWarningFirst(results) ==
    IF "WARN" \in RecordedActions(results) THEN "WARN"
    ELSE IF RecordedActions(results) \cap {"BLOCK", "THROTTLE"} # {} THEN "FAIL"
    ELSE "PASS"

\* _determine_overall_verdict
determine_overall_verdict(results) ==
    LET has_blocking == RecordedActions(results) \cap {"BLOCK", "THROTTLE"} # {}
        has_warnings == "WARN" \in RecordedActions(results)
    IN  IF has_blocking THEN "FAIL" ELSE IF has_warnings THEN "WARN" ELSE "PASS"

\* sum(e.estimated_cost for e in feature_events), in whole units
RECURSIVE CostSum(_, _)
CostSum(events, k) ==
    IF k = 0 THEN 0 ELSE CostSum(events, k - 1) + Val(events[k].estimated_cost) \div Unit

\* the body of the loop over the groups: the result of one group, or the
\* error raised in it
SimulateGroup(key, feature_events, config) ==
    LET latest_event == feature_events[Len(feature_events)]
        baseline == create_baseline_from_events(feature_events)
    IN  IF baseline.kind = "raise" THEN baseline
        ELSE
        LET detected == IF baseline.state = "WARM"
                        THEN detect_anomalies(key[1], key[2], baseline, latest_event)
                        ELSE [kind |-> "return", anomalies |-> << >>]
        IN  IF detected.kind = "raise" THEN detected
            ELSE [kind |-> "return",
                  feature |-> key[1], model |-> key[2],
                  estimated_monthly_cost |->
                      TimesAfterDivided(CostSum(feature_events, Len(feature_events)),
                                        DaysPerMonth),
                  anomalies |-> detected.anomalies,
                  violations |-> simulate_enforcement(config, baseline, latest_event,
                                                      detected.anomalies)]

\* simulate_cost_impact on the database database in the condition fault, with
\* datetime.now() = now
simulate_cost_impact(feature, config, database, fault, now) ==
    LET fetched == get_recent_events(database, fault, feature, None, Some(LookbackDays),
                                     FetchLimit, now)
    IN  IF fetched.kind = "raise"
        THEN IF fetched.exception = "OperationalError" /\ IsNoSuchTable(fetched.message)
             THEN TrivialResult
             ELSE fetched
        ELSE IF fetched.events = << >> THEN TrivialResult
        ELSE
        LET events == fetched.events
            keys == GroupKeys(events)
            groups == [k \in 1..Len(keys) |->
                          SimulateGroup(keys[k], GroupEvents(events, keys[k]), config)]
            failed == {k \in 1..Len(keys) : groups[k].kind = "raise"}
        IN  IF failed # {} THEN groups[SetMin(failed)]
            ELSE
            LET results == [k \in 1..Len(keys) |->
                               [feature |-> groups[k].feature, model |-> groups[k].model,
                                estimated_monthly_cost |-> groups[k].estimated_monthly_cost,
                                anomalies |-> groups[k].anomalies,
                                violations |-> groups[k].violations]]
                monthly == [k \in 1..Len(keys) |-> results[k].estimated_monthly_cost]
            IN  [kind |-> "return", per_feature_results |-> results,
                 overall_verdict |-> determine_overall_verdict(results),
                 estimated_monthly_impact |-> DoubleSumOf(monthly, Len(monthly))]

----------------------------------------------------------------------------
(* core/pricing.py, sdk/openai_client.py *)

\* PRICING_TABLE: the prices of 1K prompt and 1K completion tokens, in cents
PricingTable ==
    [m \in {"gpt-4", "gpt-3.5-turbo", "claude-3-opus"} |->
        IF m = "gpt-4" THEN [prompt_cost_per_1k |-> 3000, completion_cost_per_1k |-> 6000]
        ELSE IF m = "gpt-3.5-turbo"
        THEN [prompt_cost_per_1k |-> 150, completion_cost_per_1k |-> 200]
        ELSE [prompt_cost_per_1k |-> 1500, completion_cost_per_1k |-> 7500]]

\* quantize(Decimal("0.01"), rounding=ROUND_UP) of x / 1000 cents, for x >= 0:
\* the next whole number of cents
RoundUpCents(x) == (x + 999) \div 1000

\* calculate_cost for token counts >= 0: the cost as a float
calculate_cost(model, usage) ==
    IF model \notin DOMAIN PricingTable
    THEN [kind |-> "raise", exception |-> "ValueError",
          message |-> <<"Unsupported model", model>>]
    ELSE LET pricing == PricingTable[model]
             total_cost == usage.prompt_tokens * pricing.prompt_cost_per_1k
                           + usage.completion_tokens * pricing.completion_cost_per_1k
         IN  [kind |-> "return", value |-> RoundUpCents(total_cost) * (Unit \div 100)]

\* GuardedOpenAI.chat of the client self, with datetime.now() = now.  api is
\* the outcome of self.client.chat.completions.create: an error, or a
\* response with an id and a usage that may be None.  The outcome of the
\* call, the database after it, and whether the API call completed.
chat(database, fault, self, messages, api, now) ==
    IF messages = << >>
    THEN [outcome |-> [kind |-> "raise", exception |-> "ValueError",
                       message |-> <<"messages is required and cannot be empty">>],
          database |-> database, completed |-> FALSE]
    ELSE IF api.kind = "raise"
    THEN [outcome |-> api, database |-> database, completed |-> FALSE]
    ELSE IF IsNone(api.usage)
    THEN [outcome |-> [kind |-> "raise", exception |-> "ValueError",
                       message |-> <<"OpenAI response missing usage information">>],
          database |-> database, completed |-> TRUE]
    ELSE
    LET usage == Val(api.usage)
        estimated_cost == calculate_cost(self.model, usage)
    IN  IF estimated_cost.kind = "raise"
        THEN [outcome |-> estimated_cost, database |-> database, completed |-> TRUE]
        ELSE
        LET event == [timestamp |-> now, feature |-> self.feature, model |-> self.model,
                      prompt_tokens |-> usage.prompt_tokens,
                      completion_tokens |-> usage.completion_tokens,
                      total_tokens |-> Some(usage.total_tokens),
                      estimated_cost |-> Some(estimated_cost.value),
                      retry_count |-> Some(0), request_id |-> Some(api.id)]
            inserted == insert_usage_event(database, fault, event)
        IN  [outcome |-> IF inserted.outcome.kind = "raise" THEN inserted.outcome
                         ELSE [kind |-> "return", response |-> api],
             database |-> inserted.database, completed |-> TRUE]

----------------------------------------------------------------------------
(* cli/main.py *)

EXIT_CODE_PASS == 0

EXIT_CODE_WARN == 0

EXIT_CODE_FAIL == 1

\* _verdict_to_exit_code
verdict_to_exit_code(verdict) ==
    CASE verdict = "PASS" -> EXIT_CODE_PASS
      [] verdict = "WARN" -> EXIT_CODE_WARN
      [] verdict = "FAIL" -> EXIT_CODE_FAIL

\* GuardrailConfig(max_cost_per_request=max_cost, budget_limit=budget): the
\* three actions have their defaults
CliConfig(max_cost, budget) ==
    [max_cost_per_request |-> max_cost, budget_limit |-> budget,
     on_budget_breach |-> "BLOCK", on_critical_anomaly |-> "BLOCK",
     on_warning_anomaly |-> "WARN"]

\* the "no data" test of the command
NoDataFound(simulated) ==
    /\ simulated.per_feature_results = << >>
    /\ simulated.estimated_monthly_impact = Double(0)

\* a test of the exit status that fails the command for every verdict but PASS
ExitsForAnyFinding(enforced, verdict) == enforced /\ verdict # "PASS"

\* enforced and result.overall_verdict == SimulationVerdict.FAIL
ExitsWithFailure(enforced, verdict) == enforced /\ verdict = "FAIL"

\* what the command does with the outcome of simulate_cost_impact: its exit
\* status and what it printed.  sys.exit raises SystemExit, which the
\* handlers of the command let through; an OperationalError that is not "no
\* such table" is raised again and ends the process with status 1.
ExitOf(simulated, enforced) ==
    IF simulated.kind = "raise"
    THEN IF simulated.exception = "OperationalError"
         THEN IF IsNoSuchTable(simulated.message)
              THEN [kind |-> "exit", code |-> EXIT_CODE_PASS, shown |-> "no data",
                    simulated |-> simulated]
              ELSE [kind |-> "exit", code |-> 1, shown |-> "traceback",
                    simulated |-> simulated]
         ELSE [kind |-> "exit", code |-> EXIT_CODE_FAIL, shown |-> "error",
               simulated |-> simulated]
    ELSE IF NoDataFound(simulated)
    THEN [kind |-> "exit", code |-> EXIT_CODE_PASS, shown |-> "no data",
          simulated |-> simulated]
    ELSE IF ExitsWithFailure(enforced, simulated.overall_verdict)
    THEN [kind |-> "exit", code |-> EXIT_CODE_FAIL, shown |-> "result",
          simulated |-> simulated]
    ELSE [kind |-> "exit", code |-> EXIT_CODE_PASS, shown |-> "result",
          simulated |-> simulated]

\* the simulate command on the database database in the condition fault
simulate(database, fault, feature, max_cost, budget, enforced, now) ==
    ExitOf(simulate_cost_impact(feature, CliConfig(max_cost, budget), database, fault,
                                now),
           enforced)

----------------------------------------------------------------------------
(* The arguments enforce_guardrails is called with *)

OptCosts == {None} \cup {Some(Float(c)) : c \in 1..MaxCost}

GuardrailConfigs ==
    [max_cost_per_request : OptCosts,
     budget_limit : {None, Some(Float(MaxCost))},
     on_budget_breach : EnforcementAction,
     on_critical_anomaly : EnforcementAction,
     on_warning_anomaly : EnforcementAction]

\* the anomalies detect_anomalies can produce, named by their rule
AnomalyKinds ==
    {[rule |-> "A", severity |-> "CRITICAL", message |-> "A"],
     [rule |-> "B", severity |-> "WARNING", message |-> "B"],
     [rule |-> "C", severity |-> "WARNING", message |-> "C"]}

AnomalyLists == UNION {[1..n -> AnomalyKinds] : n \in 0..MaxAnomalies}

BudgetStates ==
    [amount_used : {Float(0)},
     amount_remaining : {Float(-1), Float(0), Float(1)},
     budget_period_days : {30}]

GuardrailEvents == [estimated_cost : {Some(Float(c)) : c \in 0..MaxCost}]

GuardrailBaselines == [state : BaselineState]

----------------------------------------------------------------------------
(* The state machine *)

Init ==
    /\ pc = "idle"
    /\ args = [op |-> "none"]
    /\ result = [kind |-> "none"]
    /\ table = FALSE
    /\ ledger = << >>

\* a caller invokes enforce_guardrails
EnforceGuardrails ==
    /\ pc = "idle"
    /\ \E config \in GuardrailConfigs, baseline \in GuardrailBaselines,
          current_event \in GuardrailEvents, anomalies \in AnomalyLists,
          budget_state \in BudgetStates :
          /\ args' = [op |-> "enforce_guardrails", config |-> config,
                      baseline |-> baseline, current_event |-> current_event,
                      anomalies |-> anomalies, budget_state |-> budget_state]
          /\ result' = enforce_guardrails(config, baseline, current_event,
                                          anomalies, budget_state)
    /\ pc' = "done"
    /\ UNCHANGED db

\* the caller takes the outcome; the next call may start
Reset ==
    /\ pc = "done"
    /\ pc' = "idle"
    /\ args' = [op |-> "none"]
    /\ result' = [kind |-> "none"]
    /\ UNCHANGED db

NextGuardrails == EnforceGuardrails \/ Reset

SpecGuardrails == Init /\ [][NextGuardrails]_vars

----------------------------------------------------------------------------
(* The arguments detect_anomalies is called with *)

\* the p90_cost of a baseline is 0..MaxP90 units
MaxP90 == 20

\* the cost of the current event of detect_anomalies is 0..MaxEventCost units
MaxEventCost == 16

\* the retry count of the current event is 0..MaxRetry
MaxRetry == 3

MedianTokenValues == {0, 10, 1000}

TokenValues == {0, 1, 16, 17, 18, 1699, 1700, 1701, 1800}

AnomalyMetrics ==
    [median_cost : {Float(0)},
     p90_cost : {Float(c) : c \in 0..MaxP90},
     median_tokens : MedianTokenValues,
     sample_count : {20}]

\* a baseline as compute_baseline returns it (metrics present, COLD or WARM),
\* and one without metrics
AnomalyBaselines ==
    [state : BaselineState, metrics : {None} \cup {Some(m) : m \in AnomalyMetrics}]

AnomalyCurrentEvents ==
    [estimated_cost : {None} \cup {Some(Float(c)) : c \in 0..MaxEventCost},
     total_tokens : {None} \cup {Some(t) : t \in TokenValues},
     retry_count : {None} \cup {Some(r) : r \in 0..MaxRetry}]

\* a caller invokes detect_anomalies
DetectAnomalies ==
    /\ pc = "idle"
    /\ \E baseline \in AnomalyBaselines, current_event \in AnomalyCurrentEvents :
          /\ args' = [op |-> "detect_anomalies", feature |-> "feature",
                      model |-> "model", baseline |-> baseline,
                      current_event |-> current_event]
          /\ result' = detect_anomalies("feature", "model", baseline, current_event)
    /\ pc' = "done"
    /\ UNCHANGED db

NextAnomaly == DetectAnomalies \/ Reset

SpecAnomaly == Init /\ [][NextAnomaly]_vars

----------------------------------------------------------------------------
(* The arguments compute_baseline is called with *)

\* timestamps are the days 0..MaxTimestamp
MaxTimestamp == 2

\* the costs of the events of a baseline are 1..MaxBaselineCost units
MaxBaselineCost == 2

\* an explicitly enumerated list has at most MaxListLen events
MaxListLen == 3

\* datetime.now(): seven_days_ago is day 1 or day 2, so day 0, or days 0 and
\* 1, are older than the window
Nows == {WindowDays + 1, WindowDays + 2}

BaselineEvents ==
    [timestamp : 0..MaxTimestamp,
     estimated_cost : {None} \cup {Some(Float(c)) : c \in 1..MaxBaselineCost},
     total_tokens : {Some(10)}]

\* the events of the long lists: with a cost, the tokens ten times the cost
RunEvents ==
    {[timestamp |-> t, estimated_cost |-> Some(Float(c)), total_tokens |-> Some(10 * c)] :
        t \in 0..MaxTimestamp, c \in 1..MaxBaselineCost}

\* the lengths of the runs of a long list, around WarmSampleCount and EventLimit
RunLengths == {1, WarmSampleCount - 1, WarmSampleCount, EventLimit}

\* n times the event e
Run(n, e) == [i \in 1..n |-> e]

\* every list of at most MaxListLen events
ShortLists == UNION {[1..n -> BaselineEvents] : n \in 0..MaxListLen}

\* a run of one event followed by a run of another
LongLists ==
    {Run(n1, e1) \o Run(n2, e2) : n1 \in RunLengths, n2 \in RunLengths,
                                  e1 \in RunEvents, e2 \in RunEvents}

\* a caller invokes compute_baseline
ComputeBaseline ==
    /\ pc = "idle"
    /\ \E events \in ShortLists \cup LongLists, now \in Nows :
          /\ args' = [op |-> "compute_baseline", events |-> events, now |-> now]
          /\ result' = compute_baseline(events, now)
    /\ pc' = "done"
    /\ UNCHANGED db

\* the scenario of the tests: 25 events with the costs 1.0 .. 25.0
ScenarioSize == 25

\* the longest ramp
MaxRamp == 51

\* the values of a ramp are step, 2 * step, ..., for a step of 1..MaxStep units
MaxStep == 3

\* the lengths of the ramps: short ones, the scenario, and the lengths at
\* which the double position leaves a whole number
RampLengths == 1..4 \cup {ScenarioSize, ScenarioSize + 1, MaxRamp}

\* step, 2 * step, ..., n * step
Ramp(n, step) == [i \in 1..n |-> Float(i * step)]

\* the ramp from its largest value down
Descending(values) == [i \in 1..Len(values) |-> values[Len(values) + 1 - i]]

\* lists in which a value occurs more than once
ListsWithDuplicates ==
    {<<Float(1), Float(1), Float(2)>>, <<Float(2), Float(1), Float(1)>>,
     <<Float(1), Float(2), Float(2), Float(3)>>,
     <<Float(5), Float(5), Float(5), Float(5), Float(5)>>}

ValueLists ==
    {<< >>} \cup ListsWithDuplicates
    \cup {Ramp(n, step) : n \in RampLengths, step \in 1..MaxStep}
    \cup {Descending(Ramp(n, step)) : n \in RampLengths, step \in 1..MaxStep}

\* the percentiles of the range and one beyond each end of it
Percentiles == (0 - 1)..101

\* a caller invokes _compute_exact_percentile
ComputeExactPercentile ==
    /\ pc = "idle"
    /\ \E values \in ValueLists, percentile \in Percentiles :
          /\ args' = [op |-> "compute_exact_percentile", values |-> values,
                      percentile |-> percentile]
          /\ result' = compute_exact_percentile(values, percentile)
    /\ pc' = "done"
    /\ UNCHANGED db

\* n events inside the window with the costs of a ramp, the tokens ten times
\* the cost
RampEvents(n, step) ==
    [i \in 1..n |-> [timestamp |-> MaxTimestamp,
                     estimated_cost |-> Some(Ramp(n, step)[i]),
                     total_tokens |-> Some(10 * i * step)]]

\* a caller invokes compute_baseline with the events of a ramp
ComputeBaselineOfRamp ==
    /\ pc = "idle"
    /\ \E n \in RampLengths, step \in 1..MaxStep, now \in Nows :
          /\ args' = [op |-> "compute_baseline", events |-> RampEvents(n, step),
                      now |-> now]
          /\ result' = compute_baseline(RampEvents(n, step), now)
    /\ pc' = "done"
    /\ UNCHANGED db

NextBaseline == ComputeBaseline \/ ComputeBaselineOfRamp \/ ComputeExactPercentile \/ Reset

SpecBaseline == Init /\ [][NextBaseline]_vars

----------------------------------------------------------------------------
(* The simulation and the store it reads *)

\* the ledger holds at most MaxLedger rows
MaxLedger == 4

\* the cost of an expensive event, in units
ExpensiveCost == 31

\* max_cost_per_request of the configurations, in units
CeilingCost == 2

\* datetime.now(): the cutoff of the simulation is day 0 or day 1, so an
\* event of day 0 is inside the last 30 days or older
SimulationNows == {LookbackDays, LookbackDays + 1}

\* a usage event as insert_usage_event takes it
UsageEvent(timestamp, feature, model, cost, retries) ==
    [timestamp |-> timestamp, feature |-> feature, model |-> model,
     prompt_tokens |-> 10, completion_tokens |-> 0, total_tokens |-> Some(10),
     estimated_cost |-> Some(Float(cost)), retry_count |-> Some(retries),
     request_id |-> None]

\* the events of the store: a cheap, an expensive and a retried event of one
\* feature and model on day 1, an expensive event of another model of the
\* feature, and a cheap event of another feature on day 0
StoredEvents ==
    {UsageEvent(1, "chat", "gpt-4", 1, 0),
     UsageEvent(1, "chat", "gpt-4", ExpensiveCost, 0),
     UsageEvent(1, "chat", "gpt-4", 1, MaxRetry),
     UsageEvent(1, "chat", "gpt-3.5-turbo", ExpensiveCost, 0),
     UsageEvent(0, "search", "gpt-4", 1, 0)}

\* the feature filters: none, or the feature of some of the events
FeatureFilters == {None, Some("chat")}

\* the configurations: with and without a ceiling, a budget limit, and a
\* warning anomaly that is let through or throttled
SimulationConfigs ==
    [max_cost_per_request : {None, Some(Float(CeilingCost))},
     budget_limit : {Some(Float(1))},
     on_budget_breach : {"BLOCK"},
     on_critical_anomaly : {"BLOCK"},
     on_warning_anomaly : {"WARN", "THROTTLE"}]

\* the condition of the database during a call
Faults == {"none", "busy", "corrupt"}

\* initialize_schema: CREATE TABLE IF NOT EXISTS
InitializeSchema ==
    /\ pc = "idle"
    /\ args' = [op |-> "initialize_schema", before |-> ledger]
    /\ result' = [kind |-> "return"]
    /\ table' = TRUE
    /\ pc' = "done"
    /\ UNCHANGED ledger

\* a caller inserts one event of the set Events, the database being in a
\* condition of the set Conditions; args.before is the ledger before the call
InsertUsageEvent(Events, Conditions) ==
    /\ pc = "idle"
    /\ Len(ledger) < MaxLedger
    /\ \E event \in Events, fault \in Conditions :
          LET call == insert_usage_event(db, fault, event)
          IN  /\ args' = [op |-> "insert_usage_event", event |-> event, fault |-> fault,
                          before |-> ledger]
              /\ result' = call.outcome
              /\ table' = call.database[1]
              /\ ledger' = call.database[2]
    /\ pc' = "done"

\* a caller runs the simulation
SimulateCostImpact(Filters, Configs) ==
    /\ pc = "idle"
    /\ \E fault \in Faults :
       \E feature \in IF fault = "none" THEN Filters ELSE {None},
          config \in IF fault = "none" THEN Configs
                     ELSE {CHOOSE c \in Configs : TRUE},
          now \in IF fault = "none" THEN SimulationNows ELSE {LookbackDays} :
          LET fetched == get_recent_events(db, fault, feature, None, Some(LookbackDays),
                                           FetchLimit, now)
              after == IF fetched.kind = "raise" THEN db ELSE AfterRead(db, fetched.events)
          IN  /\ args' = [op |-> "simulate_cost_impact", feature |-> feature,
                          config |-> config, fault |-> fault, now |-> now,
                          before |-> ledger]
              /\ result' = simulate_cost_impact(feature, config, db, fault, now)
              /\ table' = after[1]
              /\ ledger' = after[2]
    /\ pc' = "done"

\* the lists of violations of one result: none, one, or two actions
ViolationLists ==
    {<< >>} \cup {<< <<a, "message">> >> : a \in EnforcementAction}
    \cup {<< <<a, "message">>, <<b, "message">> >> :
             a \in {"WARN", "DOWNGRADE"}, b \in {"WARN", "THROTTLE", "BLOCK"}}

\* a FeatureSimulationResult with the violations
ResultWith(feature, violations) ==
    [feature |-> feature, model |-> "gpt-4", estimated_monthly_cost |-> Double(1),
     anomalies |-> << >>, violations |-> violations]

\* the lists of results: none, one, or two results
ResultLists ==
    {<< >>} \cup {<<ResultWith("chat", v)>> : v \in ViolationLists}
    \cup {<<ResultWith("chat", v), ResultWith("search", w)>> :
             v \in ViolationLists, w \in ViolationLists}

\* simulate_cost_impact, or a test, calls _determine_overall_verdict
DetermineOverallVerdict ==
    /\ pc = "idle"
    /\ \E results \in ResultLists :
          /\ args' = [op |-> "determine_overall_verdict", results |-> results]
          /\ result' = [kind |-> "return", verdict |-> determine_overall_verdict(results)]
    /\ pc' = "done"
    /\ UNCHANGED db

NextVerdict == DetermineOverallVerdict \/ Reset

SpecVerdict == Init /\ [][NextVerdict]_vars

NextSimulation ==
    \/ InitializeSchema
    \/ InsertUsageEvent(StoredEvents, {"none"})
    \/ SimulateCostImpact(FeatureFilters, SimulationConfigs)
    \/ Reset

SpecSimulation == Init /\ [][NextSimulation]_vars

\* a group of the history has at most MaxGroup events
MaxGroup == 11

\* the days of the events of a history of n events, in the order of their
\* insertion: from the older day to the newer, from the newer to the older,
\* or all of one day
DayPatterns == {"rising", "falling", "level"}

DayOf(pattern, i, n) ==
    IF pattern = "level" THEN 1
    ELSE IF pattern = "rising" THEN (IF 2 * i <= n THEN 1 ELSE 2)
    ELSE (IF 2 * i <= n THEN 2 ELSE 1)

\* n events of one feature and model, the events at the positions expensive
\* with the cost ExpensiveCost and the others with the cost 1, the numbers of
\* tokens 10, 20, ... in an order of their own
History(n, expensive, pattern) ==
    [i \in 1..n |->
        [UsageEvent(DayOf(pattern, i, n), "chat", "gpt-4",
                    IF i \in expensive THEN ExpensiveCost ELSE 1, 0)
            EXCEPT !.prompt_tokens = 10 * (((3 * i) % n) + 1),
                   !.total_tokens = Some(10 * (((3 * i) % n) + 1))]]

\* the histories: 1..MaxGroup events, at most two of them expensive
Histories ==
    {History(n, expensive, pattern) :
        n \in 1..MaxGroup,
        expensive \in {S \in SUBSET (1..MaxGroup) : Cardinality(S) <= 2},
        pattern \in DayPatterns}

\* a caller inserts a history into the empty table in one batch
InsertHistory ==
    /\ pc = "idle"
    /\ ledger = << >>
    /\ \E events \in Histories :
          LET call == insert_usage_events(db, "none", events)
          IN  /\ args' = [op |-> "insert_usage_events", events |-> events,
                          fault |-> "none", before |-> ledger]
              /\ result' = call.outcome
              /\ table' = call.database[1]
              /\ ledger' = call.database[2]
    /\ pc' = "done"

\* simulate_cost_impact, or a test, calls _create_baseline_from_events with
\* the events of the store
CreateBaselineFromEvents ==
    /\ pc = "idle"
    /\ ledger # << >>
    /\ args' = [op |-> "create_baseline_from_events", events |-> ledger]
    /\ result' = create_baseline_from_events(ledger)
    /\ pc' = "done"
    /\ UNCHANGED db

NextGroups ==
    \/ InitializeSchema
    \/ InsertHistory
    \/ CreateBaselineFromEvents
    \/ SimulateCostImpact({None}, SimulationConfigs)
    \/ Reset

SpecGroups == Init /\ [][NextGroups]_vars

----------------------------------------------------------------------------
(* The ledger and its writers *)

\* a batch of insert_usage_events has at most MaxBatch events
MaxBatch == 3

\* the clients: one of a priced model, one of a model without a price
Clients == {[model |-> "gpt-4", feature |-> "chat"], [model |-> "gpt-4o", feature |-> "chat"]}

\* the messages of a call: none, or one
MessageLists == {<< >>, <<"hello">>}

\* the usage of a response: 100 prompt and 50 completion tokens, with the
\* total the server reports, which chat does not compare with their sum
Usages ==
    [prompt_tokens : {100}, completion_tokens : {50}, total_tokens : {150, 151}]

\* the outcomes of the API call: an error, a response without usage, a
\* response with usage
ApiOutcomes ==
    {[kind |-> "raise", exception |-> "APIConnectionError",
      message |-> <<"Connection error.">>]}
    \cup {[kind |-> "return", id |-> "chatcmpl-1", usage |-> usage] :
             usage \in {None} \cup {Some(u) : u \in Usages}}

\* the events handed to the insert functions: one with a cost, one without
LedgerEvents ==
    {UsageEvent(1, "chat", "gpt-4", 1, 0),
     [UsageEvent(1, "chat", "gpt-4", 1, 0) EXCEPT !.estimated_cost = None]}

\* the batches: every list of at most MaxBatch events
Batches == UNION {[1..n -> LedgerEvents] : n \in 0..MaxBatch}

\* a client calls chat
Chat ==
    /\ pc = "idle"
    /\ Len(ledger) < MaxLedger
    /\ \E self \in Clients, messages \in MessageLists, api \in ApiOutcomes,
          now \in SimulationNows, fault \in Faults :
          LET call == chat(db, fault, self, messages, api, now)
          IN  /\ args' = [op |-> "chat", self |-> self, messages |-> messages,
                          api |-> api, now |-> now, fault |-> fault, before |-> ledger]
              /\ result' = call.outcome
              /\ table' = call.database[1]
              /\ ledger' = call.database[2]
    /\ pc' = "done"

\* a caller inserts a batch
InsertUsageEvents ==
    /\ pc = "idle"
    /\ \E events \in Batches, fault \in Faults :
          /\ Len(ledger) + Len(events) <= MaxLedger
          /\ LET call == insert_usage_events(db, fault, events)
             IN  /\ args' = [op |-> "insert_usage_events", events |-> events,
                             fault |-> fault, before |-> ledger]
                 /\ result' = call.outcome
                 /\ table' = call.database[1]
                 /\ ledger' = call.database[2]
    /\ pc' = "done"

\* a caller fetches the recent events
FetchRecentUsageEvents ==
    /\ pc = "idle"
    /\ \E feature \in {None, Some("chat")}, limit \in {1, DefaultFetchLimit},
          fault \in Faults :
          LET fetched == fetch_recent_usage_events(db, fault, feature, None, limit)
              after == IF fetched.kind = "raise" THEN db ELSE AfterRead(db, fetched.events)
          IN  /\ args' = [op |-> "fetch_recent_usage_events", feature |-> feature,
                          limit |-> limit, fault |-> fault, before |-> ledger]
              /\ result' = fetched
              /\ table' = after[1]
              /\ ledger' = after[2]
    /\ pc' = "done"

NextLedger ==
    \/ InitializeSchema
    \/ Chat
    \/ InsertUsageEvent(LedgerEvents, Faults)
    \/ InsertUsageEvents
    \/ FetchRecentUsageEvents
    \/ SimulateCostImpact({None}, {CHOOSE c \in SimulationConfigs : TRUE})
    \/ Reset

SpecLedger == Init /\ [][NextLedger]_vars

----------------------------------------------------------------------------
(* The simulate command *)

\* the events of the store of the command: a cheap, an expensive and a
\* retried event of one feature and model
CliEvents == {e \in StoredEvents : e.feature = "chat" /\ e.model = "gpt-4"}

\* --max-cost and --budget: not given, or given
CliOptions ==
    [max_cost : {None, Some(Float(CeilingCost))}, budget : {None, Some(Float(1))},
     enforced : BOOLEAN]

\* a user runs the simulate command
Simulate ==
    /\ pc = "idle"
    /\ \E options \in CliOptions, fault \in Faults :
          /\ args' = [op |-> "simulate", feature |-> None, options |-> options,
                      fault |-> fault, now |-> LookbackDays, before |-> ledger]
          /\ result' = simulate(db, fault, None, options.max_cost, options.budget,
                                options.enforced, LookbackDays)
    /\ pc' = "done"
    /\ UNCHANGED db

NextCli ==
    \/ InitializeSchema
    \/ InsertUsageEvent(CliEvents, {"none"})
    \/ Simulate
    \/ Reset

SpecCli == Init /\ [][NextCli]_vars

----------------------------------------------------------------------------
(* All functions together *)

Next ==
    \/ EnforceGuardrails
    \/ DetectAnomalies
    \/ ComputeBaseline
    \/ ComputeBaselineOfRamp
    \/ ComputeExactPercentile
    \/ DetermineOverallVerdict
    \/ NextSimulation
    \/ NextLedger
    \/ Simulate
    \/ InsertHistory
    \/ CreateBaselineFromEvents

Spec == Init /\ [][Next]_vars

----------------------------------------------------------------------------
(* Claims about enforce_guardrails.  The order of severity and the         *)
(* candidates are written down here as the specification states them, not  *)
(* taken from the operators above.                                         *)

SeverityOrder == <<"ALLOW", "WARN", "DOWNGRADE", "THROTTLE", "BLOCK">>

Rank(a) == CHOOSE i \in 1..Len(SeverityOrder) : SeverityOrder[i] = a

\* the most severe action of S, ALLOW when S is empty
MaxAction(S) ==
    CHOOSE a \in S \cup {"ALLOW"} : \A b \in S \cup {"ALLOW"} : Rank(b) <= Rank(a)

EnforceDone == pc = "done" /\ args.op = "enforce_guardrails"

CeilingCandidates(a) ==
    IF /\ a.config.max_cost_per_request # None
       /\ Val(a.current_event.estimated_cost) > Val(a.config.max_cost_per_request)
    THEN {"BLOCK"} ELSE {}

BudgetCandidates(a) ==
    IF a.config.budget_limit # None /\ a.budget_state.amount_remaining <= 0
    THEN {a.config.on_budget_breach} ELSE {}

SeverityAction(config, severity) ==
    IF severity = "CRITICAL" THEN config.on_critical_anomaly
    ELSE config.on_warning_anomaly

AnomalyCandidates(a) ==
    IF a.baseline.state = "WARM"
    THEN {SeverityAction(a.config, a.anomalies[i].severity) : i \in 1..Len(a.anomalies)}
    ELSE {}

AllCandidates(a) == CeilingCandidates(a) \cup BudgetCandidates(a) \cup AnomalyCandidates(a)

\* the cumulative action after the ceiling check, after the budget check and
\* after each anomaly of the list (all of them for a WARM baseline)
ActionTrace(a) ==
    LET s1 == CeilingCheck(InitialAction, a.config, a.current_event)
        s2 == BudgetCheck(s1, a.config, a.budget_state)
        n  == IF AnomaliesEnforced(a.baseline) THEN Len(a.anomalies) ELSE 0
    IN  <<"ALLOW", s1.action, s2.action>> \o
        [k \in 1..n |-> AnomalyLoop(s2, a.config, a.anomalies, k).action]

\* C1: the action enforce_guardrails resolves to (returned, or carried by the
\* violation) is the most severe of the candidates of the ceiling check, the
\* budget check and, for a WARM baseline, every anomaly; ALLOW when there is
\* none; and the cumulative action never decreases from one check to the next.
C1_ResolvesToMaximum ==
    EnforceDone =>
        /\ result.action = MaxAction(AllCandidates(args))
        /\ LET tr == ActionTrace(args)
           IN  /\ \A k \in 1..(Len(tr) - 1) : Rank(tr[k]) <= Rank(tr[k + 1])
               /\ tr[Len(tr)] = result.action

\* a later check yields a less severe candidate than an earlier one, and the
\* earlier one stands
C1_Witness ==
    /\ EnforceDone
    /\ BudgetCandidates(args) = {"THROTTLE"}
    /\ CeilingCandidates(args) = {}
    /\ AnomalyCandidates(args) = {"WARN", "DOWNGRADE"}
    /\ result.action = "THROTTLE"

\* C2: enforce_guardrails raises GuardrailViolation, carrying the resolved
\* action, exactly when the resolved action is BLOCK or THROTTLE; otherwise it
\* returns the resolved action, which is ALLOW, WARN or DOWNGRADE.
C2_RaisesIffBlocking ==
    EnforceDone =>
        LET resolved == MaxAction(AllCandidates(args))
        IN  /\ result.kind \in {"raise", "return"}
            /\ result.kind = "raise" <=> resolved \in {"BLOCK", "THROTTLE"}
            /\ result.kind = "raise" => result.exception = "GuardrailViolation"
            /\ result.action = resolved
            /\ result.kind = "return" => result.action \in {"ALLOW", "WARN", "DOWNGRADE"}

\* a THROTTLE is raised, not returned
C2_Witness ==
    /\ EnforceDone
    /\ MaxAction(AllCandidates(args)) = "THROTTLE"
    /\ result.kind = "raise"
    /\ result.action = "THROTTLE"

\* C3: a cost strictly above a set max_cost_per_request always ends in a BLOCK
\* violation, whatever the baseline, the budget, the anomalies and the
\* configured actions; a cost equal to the limit does not trigger the ceiling:
\* the outcome is that of the same call without a limit.
C3_CeilingAlwaysBlocks ==
    EnforceDone /\ args.config.max_cost_per_request # None =>
        LET limit == Val(args.config.max_cost_per_request)
            cost == Val(args.current_event.estimated_cost)
        IN  /\ cost > limit =>
                /\ result.kind = "raise"
                /\ result.action = "BLOCK"
                /\ result.message = [check |-> "max_cost", cost |-> cost, limit |-> limit]
            /\ cost = limit =>
                result = enforce_guardrails(
                             [args.config EXCEPT !.max_cost_per_request = None],
                             args.baseline, args.current_event, args.anomalies,
                             args.budget_state)

\* the ceiling fires while every configured action is ALLOW, the baseline is
\* COLD and the budget is breached
C3_Witness ==
    /\ EnforceDone
    /\ args.config.max_cost_per_request = Some(Float(1))
    /\ args.current_event.estimated_cost = Some(Float(2))
    /\ args.baseline.state = "COLD"
    /\ args.config.on_budget_breach = "ALLOW"
    /\ args.config.on_critical_anomaly = "ALLOW"
    /\ args.config.on_warning_anomaly = "ALLOW"
    /\ BudgetCandidates(args) # {}
    /\ Len(args.anomalies) > 0
    /\ result.kind = "raise"
    /\ result.action = "BLOCK"

\* C4: for a COLD baseline the anomaly list has no effect: the outcome is that
\* of the ceiling and budget checks alone, the same as for a WARM baseline
\* with an empty anomaly list.
C4_ColdIgnoresAnomalies ==
    EnforceDone /\ args.baseline.state = "COLD" =>
        /\ result.action = MaxAction(CeilingCandidates(args) \cup BudgetCandidates(args))
        /\ result = enforce_guardrails(args.config, [state |-> "WARM"],
                                       args.current_event, << >>, args.budget_state)

\* a CRITICAL anomaly mapped to BLOCK is ignored for a COLD baseline
C4_Witness ==
    /\ EnforceDone
    /\ args.baseline.state = "COLD"
    /\ args.config.on_critical_anomaly = "BLOCK"
    /\ \E i \in 1..Len(args.anomalies) : args.anomalies[i].severity = "CRITICAL"
    /\ result = [kind |-> "return", action |-> "ALLOW"]

\* no candidate other than the budget check's
OnlyBudget(a) == CeilingCandidates(a) = {} /\ AnomalyCandidates(a) = {}

\* C5: the budget check contributes config.on_budget_breach exactly when
\* budget_limit is set and amount_remaining <= 0 (0 included).  Seen alone
\* (no other candidate) the resolved action is then on_budget_breach, else
\* ALLOW; in every call the resolved action is at least on_budget_breach on a
\* breach; and without a budget_limit the remaining amount changes nothing.
C5_BudgetBreach ==
    EnforceDone =>
        LET breach == /\ args.config.budget_limit # None
                      /\ args.budget_state.amount_remaining <= 0
        IN  /\ OnlyBudget(args) =>
                result.action = IF breach THEN args.config.on_budget_breach ELSE "ALLOW"
            /\ breach => Rank(result.action) >= Rank(args.config.on_budget_breach)
            /\ (breach /\ result.kind = "raise" /\ CeilingCandidates(args) = {}
                  /\ Rank(args.config.on_budget_breach) = Rank(result.action)) =>
                    result.message.check = "budget"
            /\ ~breach =>
                result = enforce_guardrails(
                             args.config, args.baseline, args.current_event, args.anomalies,
                             [args.budget_state EXCEPT !.amount_remaining = Float(1)])

\* a remaining amount of exactly 0 is a breach
C5_Witness ==
    /\ EnforceDone
    /\ args.config.budget_limit # None
    /\ args.budget_state.amount_remaining = Float(0)
    /\ args.config.on_budget_breach = "DOWNGRADE"
    /\ OnlyBudget(args)
    /\ result = [kind |-> "return", action |-> "DOWNGRADE"]

----------------------------------------------------------------------------
(* Claims about detect_anomalies.  The conditions compare in tenths: a      *)
(* float x exceeds 1.5 times a float y exactly when 10 * x > 15 * y.        *)

AnomalyDone == pc = "done" /\ args.op = "detect_anomalies"

\* the event has the three fields detect_anomalies reads
EventComplete(e) ==
    e.estimated_cost # None /\ e.total_tokens # None /\ e.retry_count # None

\* a WARM baseline with metrics and an event with all its fields
WarmCall == AnomalyDone /\ args.baseline.state = "WARM"
            /\ args.baseline.metrics # None /\ EventComplete(args.current_event)

\* the anomalies of the result reported by one rule
Reported(rule) == SelectSeq(result.anomalies, LAMBDA an : an.rule = rule)

\* C6: for a COLD baseline detect_anomalies returns the empty list, whatever
\* the event, a missing field of the event included.
C6_ColdReturnsEmpty ==
    AnomalyDone /\ args.baseline.state = "COLD" =>
        result = [kind |-> "return", anomalies |-> << >>]

\* a COLD baseline, an event without a cost whose tokens and retries exceed
\* every threshold
C6_Witness ==
    /\ AnomalyDone
    /\ args.baseline.state = "COLD"
    /\ args.baseline.metrics # None
    /\ Val(args.baseline.metrics).median_tokens = 10
    /\ args.current_event.estimated_cost = None
    /\ args.current_event.total_tokens = Some(1800)
    /\ args.current_event.retry_count = Some(MaxRetry)
    /\ result.kind = "return"
    /\ result.anomalies = << >>

\* C7: for a WARM baseline, a rule A anomaly is reported exactly when
\* cost > 1.5 * p90_cost (equality does not fire); it is CRITICAL and carries
\* observed_value = cost, baseline_value = p90_cost, threshold = 1.5 * p90_cost.
C7_RuleA ==
    WarmCall =>
        LET cost == Val(args.current_event.estimated_cost)
            p90 == Val(args.baseline.metrics).p90_cost
            as == Reported("A")
        IN  /\ result.kind = "return"
            /\ Len(as) = (IF 10 * cost > 15 * p90 THEN 1 ELSE 0)
            /\ \A i \in 1..Len(as) :
                  /\ as[i].severity = "CRITICAL"
                  /\ as[i].observed_value = cost
                  /\ as[i].baseline_value = p90
                  /\ 10 * as[i].threshold = 15 * p90

\* p90 10.0, cost 16.0: rule A fires with threshold 15.0
C7_Witness ==
    /\ WarmCall
    /\ Val(args.baseline.metrics).p90_cost = Float(10)
    /\ args.current_event.estimated_cost = Some(Float(16))
    /\ Len(Reported("A")) = 1
    /\ Reported("A")[1].threshold = Float(15)
    /\ Reported("A")[1].observed_value = Float(16)

\* C8: for a WARM baseline, a rule B anomaly is reported exactly when
\* total_tokens > 1.7 * median_tokens (equality does not fire); it is a WARNING.
C8_RuleB ==
    WarmCall =>
        LET tokens == Val(args.current_event.total_tokens)
            median == Val(args.baseline.metrics).median_tokens
            bs == Reported("B")
        IN  /\ result.kind = "return"
            /\ Len(bs) = (IF 10 * tokens > 17 * median THEN 1 ELSE 0)
            /\ \A i \in 1..Len(bs) :
                  /\ bs[i].severity = "WARNING"
                  /\ bs[i].observed_value = tokens
                  /\ bs[i].baseline_value = median
                  /\ 10 * bs[i].threshold = 17 * Float(median)

\* median 1000, 1800 tokens: rule B fires with threshold 1700
C8_Witness ==
    /\ WarmCall
    /\ Val(args.baseline.metrics).median_tokens = 1000
    /\ args.current_event.total_tokens = Some(1800)
    /\ Len(Reported("B")) = 1
    /\ Reported("B")[1].threshold = Float(1700)
    /\ Reported("B")[1].severity = "WARNING"

\* C9: for a WARM baseline, a rule C anomaly is reported exactly when
\* retry_count > 1 and cost * retry_count > 1.3 * p90_cost; never with 0 or 1
\* retries; it is a WARNING whose observed_value is cost * retry_count.
C9_RuleC ==
    WarmCall =>
        LET cost == Val(args.current_event.estimated_cost)
            retries == Val(args.current_event.retry_count)
            p90 == Val(args.baseline.metrics).p90_cost
            cs == Reported("C")
        IN  /\ result.kind = "return"
            /\ Len(cs) = (IF retries > 1 /\ 10 * cost * retries > 13 * p90 THEN 1 ELSE 0)
            /\ retries \in {0, 1} => Len(cs) = 0
            /\ \A i \in 1..Len(cs) :
                  /\ cs[i].severity = "WARNING"
                  /\ cs[i].observed_value = cost * retries
                  /\ cs[i].baseline_value = p90
                  /\ 10 * cs[i].threshold = 13 * p90

\* cost 8.0, 2 retries, p90 10.0: rule C fires with observed 16.0, threshold 13.0
C9_Witness ==
    /\ WarmCall
    /\ Val(args.baseline.metrics).p90_cost = Float(10)
    /\ args.current_event.estimated_cost = Some(Float(8))
    /\ args.current_event.retry_count = Some(2)
    /\ Len(Reported("C")) = 1
    /\ Reported("C")[1].observed_value = Float(16)
    /\ Reported("C")[1].threshold = Float(13)

----------------------------------------------------------------------------
(* Claims about compute_baseline *)

BaselineDone == pc = "done" /\ args.op = "compute_baseline"

\* the events in the opposite order
Reversed(events) == [i \in 1..Len(events) |-> events[Len(events) + 1 - i]]

\* orders of the same events: the reversed list and, for a list of at most
\* MaxListLen events, every permutation
Rearrangements(events) ==
    {Reversed(events)} \cup
    (IF Len(events) <= MaxListLen
     THEN {[i \in 1..Len(events) |-> events[f[i]]] : f \in Permutations(1..Len(events))}
     ELSE {})

\* the number of events of the list inside the 7-day window
InWindow(events, now) ==
    Cardinality({i \in 1..Len(events) : events[i].timestamp >= now - WindowDays})

\* C10: compute_baseline does not depend on the order of its input: every
\* permutation of the events, at the same current time, gives the same metrics,
\* state, window_start and window_end.
C10_OrderIndependent ==
    BaselineDone /\ result.kind = "return" =>
        \A p \in Rearrangements(args.events) : compute_baseline(p, args.now) = result

\* the same, for inputs with at most EventLimit events inside the window
C10_OrderIndependentBelowLimit ==
    BaselineDone /\ result.kind = "return"
      /\ InWindow(args.events, args.now) <= EventLimit =>
        \A p \in Rearrangements(args.events) : compute_baseline(p, args.now) = result

\* the size of the sample as the specification states it: the events inside
\* the window, at most EventLimit of them
SampleSize(events, now) ==
    IF InWindow(events, now) >= EventLimit THEN EventLimit ELSE InWindow(events, now)

\* C11: a result of compute_baseline is WARM exactly when the filtered sample
\* (the events of the last 7 days, at most 200 of them), not the input list,
\* has at least 20 events, and COLD otherwise; WARM or COLD, it carries the
\* metrics computed from the filtered sample, never null metrics.
C11_StateFromSample ==
    BaselineDone /\ result.kind = "return" =>
        LET sample == FilteredEvents(args.events, args.now)
            costs == [i \in 1..Len(sample) |-> Val(sample[i].estimated_cost)]
        IN  /\ Len(sample) = SampleSize(args.events, args.now)
            /\ result.state = (IF SampleSize(args.events, args.now) >= 20 THEN "WARM" ELSE "COLD")
            /\ ~IsNone(result.metrics)
            /\ Val(result.metrics).sample_count = SampleSize(args.events, args.now)
            /\ Val(result.metrics).median_cost = PercentileValue(costs, 50)
            /\ Val(result.metrics).p90_cost = PercentileValue(costs, 90)

\* 20 events of which 19 are inside the window: COLD, with the metrics of the 19
C11_Witness ==
    /\ BaselineDone
    /\ result.kind = "return"
    /\ Len(args.events) >= 20
    /\ result.state = "COLD"
    /\ Val(result.metrics).sample_count = 19

\* exactly 20 events inside the window: WARM
C11_WitnessWarm ==
    /\ BaselineDone
    /\ result.kind = "return"
    /\ Val(result.metrics).sample_count = 20
    /\ result.state = "WARM"

\* C12: compute_baseline raises an input error exactly when the list is
\* empty, or some event of it (inside the window or older) has no cost, or
\* every event is older than 7 days; in every other case it returns a
\* BaselineResult.
C12_InputErrors ==
    BaselineDone =>
        LET events == args.events
            empty == Len(events) = 0
            no_cost == \E i \in 1..Len(events) : events[i].estimated_cost = None
            all_old == \A i \in 1..Len(events) : events[i].timestamp < args.now - 7
        IN  /\ result.kind = "raise" <=> (empty \/ no_cost \/ all_old)
            /\ result.kind = "raise" => result.exception = "ValueError"
            /\ result.kind = "return" => result.state \in BaselineState

\* an event older than 7 days without a cost, after one inside the window
\* with a cost: the call raises
C12_Witness ==
    /\ BaselineDone
    /\ Len(args.events) = 2
    /\ args.events[1].timestamp >= args.now - 7
    /\ args.events[1].estimated_cost # None
    /\ args.events[2].timestamp < args.now - 7
    /\ args.events[2].estimated_cost = None
    /\ result.kind = "raise"

----------------------------------------------------------------------------
(* Claims about simulate_cost_impact.  The events a simulation is about, *)
(* their groups and the sums of their costs are written down here from   *)
(* the rows of the ledger, not taken from the operators above.           *)

SimulationDone == pc = "done" /\ args.op = "simulate_cost_impact"

\* the simulation met no store error other than a missing table
Undisturbed == SimulationDone /\ args.fault = "none"

\* the positions of the rows a simulation at the time now is about: the rows
\* of the filtered feature that are at most 30 days old
RecentRows(now) ==
    {i \in 1..Len(ledger) :
        /\ ledger[i].timestamp >= now - 30
        /\ args.feature = None \/ ledger[i].feature = Val(args.feature)}

\* the (feature, model) pairs of those rows
RecentPairs(now) == {<<ledger[i].feature, ledger[i].model>> : i \in RecentRows(now)}

\* the rows of a pair among them
RowsOfPair(pair, now) ==
    {i \in RecentRows(now) : <<ledger[i].feature, ledger[i].model>> = pair}

\* the sum of the costs of a set of rows, in units
RECURSIVE SumOfCosts(_)
SumOfCosts(rows) ==
    IF rows = {} THEN 0
    ELSE LET i == CHOOSE i \in rows : TRUE
         IN  Val(ledger[i].estimated_cost) \div Unit + SumOfCosts(rows \ {i})

\* the results of the simulation for a pair
ResultsOfPair(pair) ==
    {k \in 1..Len(result.per_feature_results) :
        /\ result.per_feature_results[k].feature = pair[1]
        /\ result.per_feature_results[k].model = pair[2]}

\* the representative event of a pair: the last of its events in the order
\* the store returns them (newest first, rows of one timestamp by their ids)
Representative(pair, now) ==
    LET rows == RowsOfPair(pair, now)
        oldest == SetMin({ledger[i].timestamp : i \in rows})
    IN  ledger[0 - SetMin({0 - i : i \in {j \in rows : ledger[j].timestamp = oldest}})]

\* C13: simulate_cost_impact returns the trivial result (PASS, impact 0, no
\* per-feature results) when the store returns no event and when the store
\* signals that the table is absent; every other store error propagates
\* unchanged.
C13_TrivialResult ==
    SimulationDone =>
        /\ args.fault = "none" /\ (~table \/ RecentRows(args.now) = {}) =>
              /\ result.kind = "return"
              /\ result.per_feature_results = << >>
              /\ result.overall_verdict = "PASS"
              /\ result.estimated_monthly_impact = Double(0)
        /\ args.fault = "busy" =>
              /\ result.kind = "raise"
              /\ result.exception = "OperationalError"
              /\ result.message = <<"database is locked">>
        /\ args.fault = "corrupt" =>
              /\ result.kind = "raise"
              /\ result.exception = "DatabaseError"

\* the table is absent: the trivial result
C13_Witness ==
    /\ SimulationDone
    /\ args.fault = "none"
    /\ ~table
    /\ result.kind = "return"
    /\ result.per_feature_results = << >>

\* rows are stored, none of them recent: the trivial result
C13_WitnessNoEvents ==
    /\ SimulationDone
    /\ args.fault = "none"
    /\ table
    /\ ledger # << >>
    /\ RecentRows(args.now) = {}
    /\ result = TrivialResult

\* another OperationalError: raised
C13_WitnessPropagated ==
    /\ SimulationDone
    /\ args.fault = "busy"
    /\ result.kind = "raise"

VerdictDone == pc = "done" /\ args.op = "determine_overall_verdict"

\* the verdict the specification gives to a list of results
VerdictOf(results) ==
    IF \E k \in 1..Len(results) : \E j \in 1..Len(results[k].violations) :
          results[k].violations[j][1] \in {"BLOCK", "THROTTLE"}
    THEN "FAIL"
    ELSE IF \E k \in 1..Len(results) : \E j \in 1..Len(results[k].violations) :
               results[k].violations[j][1] = "WARN"
    THEN "WARN"
    ELSE "PASS"

\* C14: the overall verdict is FAIL if any group recorded a BLOCK or THROTTLE
\* violation; otherwise WARN if any group recorded a WARN violation; otherwise
\* PASS, also when the only violations are DOWNGRADE.
C14_Verdict ==
    /\ VerdictDone => result.verdict = VerdictOf(args.results)
    /\ SimulationDone /\ result.kind = "return" =>
          result.overall_verdict = VerdictOf(result.per_feature_results)

\* a group with a WARN and a group with a BLOCK violation: FAIL
C14_Witness ==
    /\ VerdictDone
    /\ Len(args.results) = 2
    /\ args.results[1].violations = << <<"WARN", "message">> >>
    /\ args.results[2].violations = << <<"BLOCK", "message">> >>
    /\ result.verdict = "FAIL"

\* DOWNGRADE violations only: PASS
C14_WitnessDowngrade ==
    /\ VerdictDone
    /\ args.results # << >>
    /\ \A k \in 1..Len(args.results) :
          args.results[k].violations = << <<"DOWNGRADE", "message">> >>
    /\ result.verdict = "PASS"

\* the outcome of the enforcement of a WARM group, as the simulation calls it
\* for the result r of the group
EnforcementOf(r) ==
    enforce_guardrails(args.config, [state |-> "WARM"],
                       Representative(<<r.feature, r.model>>, args.now),
                       r.anomalies, UnlimitedBudget)

\* C15: simulate_cost_impact does not raise for business-rule reasons: for
\* every content of the store and every configuration it returns a
\* SimulationResult; when the enforcement of a group resolves to BLOCK or
\* THROTTLE the violation is recorded in the violations of the group as the
\* pair of the action and the message, and every group is simulated.
C15_NeverRaises ==
    Undisturbed =>
        /\ result.kind = "return"
        /\ \A pair \in RecentPairs(args.now) : Cardinality(ResultsOfPair(pair)) = 1
        /\ \A k \in 1..Len(result.per_feature_results) :
              LET r == result.per_feature_results[k]
                  pair == <<r.feature, r.model>>
              IN  /\ pair \in RecentPairs(args.now)
                  /\ Cardinality(RowsOfPair(pair, args.now)) >= 3 =>
                        LET enforced == EnforcementOf(r)
                        IN  enforced.kind = "raise" =>
                               /\ enforced.action \in {"BLOCK", "THROTTLE"}
                               /\ r.violations = << <<enforced.action, enforced.message>> >>

\* the first group records a BLOCK, the second group is simulated all the same
C15_Witness ==
    /\ Undisturbed
    /\ result.kind = "return"
    /\ Len(result.per_feature_results) = 2
    /\ Len(result.per_feature_results[1].violations) = 1
    /\ result.per_feature_results[1].violations[1][1] = "BLOCK"

\* the first group records a THROTTLE for a warning anomaly
C15_WitnessThrottle ==
    /\ Undisturbed
    /\ result.kind = "return"
    /\ Len(result.per_feature_results) = 2
    /\ Len(result.per_feature_results[1].violations) = 1
    /\ result.per_feature_results[1].violations[1][1] = "THROTTLE"

\* the representative event of the pair costs more than the ceiling
OverCeiling(pair) ==
    /\ args.config.max_cost_per_request # None
    /\ Val(Representative(pair, args.now).estimated_cost)
          > Val(args.config.max_cost_per_request)

\* the results of the pair record a BLOCK
RecordsBlock(pair) ==
    \E k \in ResultsOfPair(pair) :
        \E j \in 1..Len(result.per_feature_results[k].violations) :
            result.per_feature_results[k].violations[j][1] = "BLOCK"

\* C16: the dry-run enforcement is run for every (feature, model) group and
\* the per-request ceiling can fire in each of them: for any group, with a
\* WARM or a COLD simulation baseline, if max_cost_per_request is set and the
\* representative event of the group costs more, the group records a BLOCK
\* violation and the verdict is FAIL.
C16_CeilingInEveryGroup ==
    Undisturbed /\ result.kind = "return" =>
        \A pair \in RecentPairs(args.now) :
            OverCeiling(pair) => RecordsBlock(pair) /\ result.overall_verdict = "FAIL"

\* what the simulation does: the ceiling fires in the groups of at least 3
\* events, and in no smaller group
C16_CeilingInWarmGroupsOnly ==
    Undisturbed /\ result.kind = "return" =>
        \A pair \in RecentPairs(args.now) :
            RecordsBlock(pair) <=>
                OverCeiling(pair) /\ Cardinality(RowsOfPair(pair, args.now)) >= 3

IsWhole(x, c) == x.fixed = Float(c) /\ x.eps = 0

\* the double x is the whole number c or one of the two doubles next to it
IsNextTo(x, c) ==
    /\ x.fixed = Float(c)
    /\ x.eps \in {0 - Pow2(Exponent(c)), 0, Pow2(Exponent(c))}

\* one result for each pair of the recent rows, and no other result
OneResultPerPair ==
    /\ Len(result.per_feature_results) = Cardinality(RecentPairs(args.now))
    /\ \A pair \in RecentPairs(args.now) : Cardinality(ResultsOfPair(pair)) = 1

\* C18: every fetched event belongs to exactly one (feature, model) group,
\* there is one per-feature result for each pair, the estimated_monthly_cost
\* of a group equals the sum of the costs of its events, and
\* estimated_monthly_impact equals the sum of the estimates of the groups,
\* which is the sum of the costs of all fetched events of the last 30 days.
C18_SumsOfCosts ==
    Undisturbed /\ result.kind = "return" =>
        /\ OneResultPerPair
        /\ \A k \in 1..Len(result.per_feature_results) :
              LET r == result.per_feature_results[k]
              IN  IsWhole(r.estimated_monthly_cost,
                          SumOfCosts(RowsOfPair(<<r.feature, r.model>>, args.now)))
        /\ IsWhole(result.estimated_monthly_impact, SumOfCosts(RecentRows(args.now)))

\* the same, up to the rounding of (sum / 30) * 30 and of the sum of the
\* estimates: each estimate, and the impact, is the sum of the costs or a
\* double next to it
C18_SumsOfCostsRounded ==
    Undisturbed /\ result.kind = "return" =>
        /\ OneResultPerPair
        /\ \A k \in 1..Len(result.per_feature_results) :
              LET r == result.per_feature_results[k]
              IN  IsNextTo(r.estimated_monthly_cost,
                           SumOfCosts(RowsOfPair(<<r.feature, r.model>>, args.now)))
        /\ IsNextTo(result.estimated_monthly_impact, SumOfCosts(RecentRows(args.now)))

\* two groups of one feature, the estimate of one of them not the sum of its
\* costs
C18_Witness ==
    /\ Undisturbed
    /\ result.kind = "return"
    /\ Len(result.per_feature_results) = 2
    /\ result.per_feature_results[1].feature = result.per_feature_results[2].feature
    /\ result.per_feature_results[1].estimated_monthly_cost.eps # 0

----------------------------------------------------------------------------
(* Claims about the ledger.  args.before is the ledger before the call. *)

ChatDone == pc = "done" /\ args.op = "chat"

\* the external API call of the chat call was made and completed
ApiCompleted == args.messages # << >> /\ args.api.kind = "return"

\* the rows the call added to the ledger
Added == SubSeq(ledger, Len(args.before) + 1, Len(ledger))

\* the rows before the call are still there, in their places
KeepsRows ==
    /\ Len(ledger) >= Len(args.before)
    /\ SubSeq(ledger, 1, Len(args.before)) = args.before

\* C19: a chat call whose external API call completes records exactly one
\* usage event, a call whose external API call fails records none: the number
\* of stored events is the number of completed external API calls.
C19_OneEventPerCompletedCall ==
    ChatDone =>
        /\ KeepsRows
        /\ Len(Added) = (IF ApiCompleted THEN 1 ELSE 0)

\* a chat call records exactly one usage event, that of its response, when it
\* returns, and none when it raises: for empty messages or a failed API call,
\* and also, after a completed API call, for a response without usage, a
\* model without a price or an error of the store
C19_OneEventPerReturnedCall ==
    ChatDone =>
        /\ KeepsRows
        /\ Len(Added) = (IF result.kind = "return" THEN 1 ELSE 0)
        /\ result.kind = "return" =>
              /\ ApiCompleted
              /\ Added[1].request_id = <<args.api.id>>
              /\ Added[1].feature = args.self.feature
              /\ Added[1].model = args.self.model
              /\ Added[1].timestamp = args.now
        /\ result.kind = "return" <=>
              /\ ApiCompleted
              /\ args.api.usage # None
              /\ args.self.model \in {"gpt-4", "gpt-3.5-turbo", "claude-3-opus"}
              /\ args.fault = "none"
              /\ table

\* a returned call after another: two rows, the second one added by the call
C19_Witness ==
    /\ ChatDone
    /\ result.kind = "return"
    /\ Len(args.before) = 1
    /\ Len(ledger) = 2

\* the API call completed without usage: the call raised and recorded nothing
C19_WitnessMissingUsage ==
    /\ ChatDone
    /\ ApiCompleted
    /\ args.api.usage = None
    /\ result.kind = "raise"
    /\ ledger = args.before

\* C21: every usage event recorded in the ledger by the SDK wrapper has
\* total_tokens = prompt_tokens + completion_tokens, estimated_cost >= 0 and
\* retry_count >= 0.
C21_EventInvariants ==
    ChatDone =>
        \A k \in 1..Len(Added) :
            /\ Val(Added[k].total_tokens)
                  = Added[k].prompt_tokens + Added[k].completion_tokens
            /\ Val(Added[k].estimated_cost) >= 0
            /\ Val(Added[k].retry_count) >= 0

\* a call of one of the functions of the store, of chat or of the simulation
\* has ended
CallDone == pc = "done" /\ args.op # "none"

\* C20: the ledger is append-only: after insert_usage_event,
\* insert_usage_events, fetch and simulate operations every event stored
\* before is still stored, unchanged; and insert_usage_events adds all events
\* of its batch or, if an insert fails, none.
C20_AppendOnly ==
    CallDone =>
        /\ KeepsRows
        /\ args.op = "insert_usage_events" =>
              /\ result.kind = "return" => Added = args.events
              /\ result.kind = "raise" => Added = << >>
        /\ args.op = "insert_usage_event" =>
              /\ result.kind = "return" => Added = <<args.event>>
              /\ result.kind = "raise" => Added = << >>
        /\ args.op \in {"fetch_recent_usage_events", "simulate_cost_impact",
                        "initialize_schema"} => Added = << >>

\* a batch whose second event has no cost, after an event with a cost: the
\* call raised and the ledger is as before
C20_Witness ==
    /\ CallDone
    /\ args.op = "insert_usage_events"
    /\ Len(args.events) >= 2
    /\ args.events[1].estimated_cost # None
    /\ args.events[2].estimated_cost = None
    /\ args.fault = "none"
    /\ table
    /\ args.before # << >>
    /\ result.kind = "raise"
    /\ ledger = args.before

\* a batch of two events added to a ledger with rows
C20_WitnessBatch ==
    /\ CallDone
    /\ args.op = "insert_usage_events"
    /\ Len(args.events) = 2
    /\ args.before # << >>
    /\ result.kind = "return"
    /\ Len(ledger) = Len(args.before) + 2

----------------------------------------------------------------------------
(* Claims about the simulate command *)

SimulateDone == pc = "done" /\ args.op = "simulate"

\* C22: the simulate command exits with a non-zero status for a simulation
\* verdict only when the verdict is FAIL and --enforced is given; with a WARN
\* or PASS verdict it exits with status 0, even with --enforced.
C22_ExitStatus ==
    SimulateDone /\ result.simulated.kind = "return" =>
        /\ result.code # 0 <=>
              (args.options.enforced /\ result.simulated.overall_verdict = "FAIL")
        /\ result.simulated.overall_verdict \in {"PASS", "WARN"} => result.code = 0
        /\ result.code \in {0, verdict_to_exit_code(result.simulated.overall_verdict)}

\* a WARN verdict with --enforced: status 0
C22_Witness ==
    /\ SimulateDone
    /\ result.simulated.kind = "return"
    /\ result.simulated.overall_verdict = "WARN"
    /\ args.options.enforced
    /\ result.code = 0

\* a FAIL verdict with --enforced: status 1
C22_WitnessFail ==
    /\ SimulateDone
    /\ result.simulated.kind = "return"
    /\ result.simulated.overall_verdict = "FAIL"
    /\ args.options.enforced
    /\ result.code = 1

\* a FAIL verdict without --enforced: status 0
C22_WitnessNotEnforced ==
    /\ SimulateDone
    /\ result.simulated.kind = "return"
    /\ result.simulated.overall_verdict = "FAIL"
    /\ ~args.options.enforced
    /\ result.code = 0

----------------------------------------------------------------------------
(* Claims about the message of the violation *)

\* the checks that fired, in the order of evaluation: the ceiling, the
\* budget, the anomalies in list order; each with its action and its message
FiredChecks(a) ==
    (IF CeilingCandidates(a) # {}
     THEN << [action |-> "BLOCK",
              message |-> [check |-> "max_cost",
                           cost |-> Val(a.current_event.estimated_cost),
                           limit |-> Val(a.config.max_cost_per_request)]] >>
     ELSE << >>)
    \o (IF BudgetCandidates(a) # {}
        THEN << [action |-> a.config.on_budget_breach,
                 message |-> [check |-> "budget", limit |-> Val(a.config.budget_limit),
                              used |-> a.budget_state.amount_used]] >>
        ELSE << >>)
    \o (IF a.baseline.state = "WARM"
        THEN [i \in 1..Len(a.anomalies) |->
                 [action |-> SeverityAction(a.config, a.anomalies[i].severity),
                  message |-> [check |-> IF a.anomalies[i].severity = "CRITICAL"
                                         THEN "critical" ELSE "warning",
                               anomaly |-> a.anomalies[i].message]]]
        ELSE << >>)

\* the first of the checks that fired with the action action
FirstWith(checks, action) ==
    checks[CHOOSE i \in 1..Len(checks) :
              /\ checks[i].action = action
              /\ \A j \in 1..(i - 1) : checks[j].action # action]

\* C23: the message of the violation is that of the first check, in the
\* order ceiling, budget, anomalies in list order, that produced the resolved
\* action: a later check with an equally severe action does not overwrite it.
C23_FirstMessage ==
    EnforceDone /\ result.kind = "raise" =>
        LET checks == FiredChecks(args)
        IN  /\ \E i \in 1..Len(checks) : checks[i].action = result.action
            /\ result.message = FirstWith(checks, result.action).message

\* the ceiling, a BLOCK budget breach and a BLOCK critical anomaly all fire:
\* the message is the ceiling's
C23_Witness ==
    /\ EnforceDone
    /\ result.kind = "raise"
    /\ CeilingCandidates(args) # {}
    /\ BudgetCandidates(args) = {"BLOCK"}
    /\ args.baseline.state = "WARM"
    /\ \E i \in 1..Len(args.anomalies) :
          /\ args.anomalies[i].severity = "CRITICAL"
          /\ args.config.on_critical_anomaly = "BLOCK"
    /\ result.message.check = "max_cost"

\* two anomalies resolve to THROTTLE: the message is that of the first
C23_WitnessAnomalies ==
    /\ EnforceDone
    /\ result.kind = "raise"
    /\ result.action = "THROTTLE"
    /\ Len(args.anomalies) = 2
    /\ args.anomalies[1] # args.anomalies[2]
    /\ args.baseline.state = "WARM"
    /\ SeverityAction(args.config, args.anomalies[1].severity) = "THROTTLE"
    /\ SeverityAction(args.config, args.anomalies[2].severity) = "THROTTLE"
    /\ result.message.anomaly = args.anomalies[1].message

----------------------------------------------------------------------------
(* Claims about the rules of detect_anomalies together *)

\* the condition of each rule, from the event and the metrics alone
RuleCondition(rule, current_event, metrics) ==
    LET cost == Val(current_event.estimated_cost)
        tokens == Val(current_event.total_tokens)
        retries == Val(current_event.retry_count)
    IN  CASE rule = "A" -> 10 * cost > 15 * metrics.p90_cost
          [] rule = "B" -> 10 * tokens > 17 * metrics.median_tokens
          [] rule = "C" -> retries > 1 /\ 10 * cost * retries > 13 * metrics.p90_cost

\* the rules whose condition holds, in the order A, B, C
RulesDue(current_event, metrics) ==
    SelectSeq(<<"A", "B", "C">>, LAMBDA rule : RuleCondition(rule, current_event, metrics))

\* the rules of the anomalies of the result, in the order of the list
RulesReported == [i \in 1..Len(result.anomalies) |-> result.anomalies[i].rule]

\* C24: for a WARM baseline the three rules are evaluated independently and
\* accumulate in the order A, B, C: the result holds at most one anomaly per
\* rule, in that order, and a rule is reported exactly when its own condition
\* holds, whether or not another rule fired.
C24_RulesIndependent ==
    WarmCall =>
        /\ result.kind = "return"
        /\ RulesReported = RulesDue(args.current_event, Val(args.baseline.metrics))

\* all three rules are reported for one event
C24_Witness ==
    /\ WarmCall
    /\ result.kind = "return"
    /\ RulesReported = <<"A", "B", "C">>

\* rule C is reported after rule B while rule A is not
C24_WitnessTwo ==
    /\ WarmCall
    /\ result.kind = "return"
    /\ RulesReported = <<"B", "C">>

\* no rule is reported
C24_WitnessNone ==
    /\ WarmCall
    /\ result.kind = "return"
    /\ RulesReported = << >>

----------------------------------------------------------------------------
(* Claims about the sample of compute_baseline *)

\* how often the event e occurs in the list
Occurrences(events, e) == Cardinality({i \in 1..Len(events) : events[i] = e})

\* the events of the list, as a set
EventsOf(events) == {events[i] : i \in 1..Len(events)}

\* C25: the sample of compute_baseline is the newest min(200, k) events of
\* the input, k being the number of events not older than 7 days: it holds
\* events of the input only, none older than 7 days, newest first; every
\* event newer than the oldest sampled one is in it, and every event of the
\* window while fewer than 200 are taken; sample_count is min(200, k).
C25_NewestSample ==
    BaselineDone /\ result.kind = "return" =>
        LET events == args.events
            cutoff == args.now - 7
            sample == FilteredEvents(events, args.now)
            n == Len(sample)
            k == Cardinality({i \in 1..Len(events) : events[i].timestamp >= cutoff})
        IN  /\ n = (IF k >= 200 THEN 200 ELSE k)
            /\ Val(result.metrics).sample_count = n
            /\ \A i \in 1..n : sample[i].timestamp >= cutoff
            /\ \A i \in 1..(n - 1) : sample[i].timestamp >= sample[i + 1].timestamp
            /\ \A e \in EventsOf(sample) : Occurrences(sample, e) <= Occurrences(events, e)
            /\ \A e \in EventsOf(events) :
                  (e.timestamp >= cutoff /\ (n < 200 \/ e.timestamp > sample[n].timestamp))
                      => Occurrences(sample, e) = Occurrences(events, e)
            /\ result.window_end = sample[1].timestamp
            /\ result.window_start = sample[n].timestamp

\* more than 200 events inside the window: 200 of them are sampled
C25_Witness ==
    /\ BaselineDone
    /\ result.kind = "return"
    /\ InWindow(args.events, args.now) > 200
    /\ Val(result.metrics).sample_count = 200

\* an event exactly 7 days old and an older one: the first is sampled, the
\* second is not
C25_WitnessWindow ==
    /\ BaselineDone
    /\ result.kind = "return"
    /\ Len(args.events) = 2
    /\ args.events[1].timestamp = args.now - 7
    /\ args.events[2].timestamp < args.now - 7
    /\ Val(result.metrics).sample_count = 1

----------------------------------------------------------------------------
(* Claims about the percentile helper.  The interpolation is written down  *)
(* here in hundredths of a position, from the formula of the               *)
(* specification, not taken from the operators above.                      *)

PercentileDone ==
    /\ pc = "done"
    /\ args.op = "compute_exact_percentile"
    /\ result.kind = "return"

\* v[r] of the values in ascending order v[0], ..., v[n - 1]: the value with
\* at most r values below it and more than r values not above it
ValueAt(values, r) ==
    CHOOSE x \in {values[i] : i \in 1..Len(values)} :
        /\ Cardinality({j \in 1..Len(values) : values[j] < x}) <= r
        /\ Cardinality({j \in 1..Len(values) : values[j] <= x}) > r

\* v[floor(pos)] + (pos - floor(pos)) * (v[min(floor(pos) + 1, n - 1)] -
\* v[floor(pos)]) at pos = (p / 100) * (n - 1)
Interpolation(values, p) ==
    LET n == Len(values)
        floor == (p * (n - 1)) \div 100
        next == IF floor + 1 < n - 1 THEN floor + 1 ELSE n - 1
        below == ValueAt(values, floor)
        above == ValueAt(values, next)
    IN  below + ((p * (n - 1) - 100 * floor) * (above - below)) \div 100

\* the values of a field of the sample of a call of compute_baseline
SampleCosts(sample) == [i \in 1..Len(sample) |-> Val(sample[i].estimated_cost)]

SampleTokens(sample) == [i \in 1..Len(sample) |-> Val(sample[i].total_tokens)]

\* the helper's value for the metrics of compute_baseline
UsedFor(values, percentile, metric) ==
    /\ compute_exact_percentile(values, percentile).value = [fixed |-> metric, eps |-> 0]
    /\ metric = Interpolation(values, percentile)

\* the magnitude of a number
Abs(x) == IF x < 0 THEN 0 - x ELSE x

C26_WitnessBetween ==
    /\ PercentileDone
    /\ args.values = <<Float(1), Float(2), Float(3), Float(4)>>
    /\ args.percentile = 90
    /\ result.value = [fixed |-> 3 * Unit + (7 * Unit) \div 10, eps |-> 0]

\* x < y and x <= y for doubles of the model
DoubleLess(x, y) == x.fixed < y.fixed \/ (x.fixed = y.fixed /\ x.eps < y.eps)

DoubleAtMost(x, y) == x = y \/ DoubleLess(x, y)

\* the double of a value of a list
Exactly(value) == [fixed |-> value, eps |-> 0]

\* C27 as stated: for ascending values v[0..n-1] the helper returns v[k]
\* exactly when (p / 100) * (n - 1) is the integer k, a value strictly
\* between the two bracketing values when the position is fractional, the
\* minimum for p = 0 and the maximum for p = 100.
C27_ExactOrStrictlyBetween ==
    PercentileDone =>
        LET n == Len(args.values)
            hundredths == args.percentile * (n - 1)
            k == hundredths \div 100
        IN  /\ hundredths % 100 = 0 => result.value = Exactly(ValueAt(args.values, k))
            /\ hundredths % 100 # 0 =>
                  /\ DoubleLess(Exactly(ValueAt(args.values, k)), result.value)
                  /\ DoubleLess(result.value, Exactly(ValueAt(args.values, k + 1)))
            /\ args.percentile = 0 => result.value = Exactly(ValueAt(args.values, 0))
            /\ args.percentile = 100 => result.value = Exactly(ValueAt(args.values, n - 1))

\* C27: for ascending values v[0..n-1] the helper returns the minimum for
\* p = 0 and the maximum for p = 100.  Where (p / 100) * (n - 1) is the
\* integer k it returns v[k] up to the rounding of the position: a value
\* from v[k - 1] to v[k + 1] that differs from v[k] by at most
\* 2k * 2^-52 * (v[n-1] - v[0]), and v[k] exactly for p = 0, 50, 90 and 100
\* and for lists of at most 25 values.  Where the position is fractional it
\* returns a value from the lower to the upper bracketing value, strictly
\* between them when they differ.
C27_ExactOrBetween ==
    PercentileDone =>
        LET n == Len(args.values)
            hundredths == args.percentile * (n - 1)
            k == hundredths \div 100
            before == IF k > 0 THEN k - 1 ELSE 0
            after == IF k + 1 < n - 1 THEN k + 1 ELSE n - 1
            spread == (ValueAt(args.values, n - 1) - ValueAt(args.values, 0)) \div Unit
        IN  /\ hundredths % 100 = 0 =>
                  /\ result.value.fixed = ValueAt(args.values, k)
                  /\ Abs(result.value.eps) <= 2 * k * spread
                  /\ DoubleAtMost(Exactly(ValueAt(args.values, before)), result.value)
                  /\ DoubleAtMost(result.value, Exactly(ValueAt(args.values, after)))
                  /\ (args.percentile \in {0, 50, 90, 100} \/ n <= ScenarioSize) =>
                        result.value.eps = 0
            /\ hundredths % 100 # 0 =>
                  /\ DoubleAtMost(Exactly(ValueAt(args.values, k)), result.value)
                  /\ DoubleAtMost(result.value, Exactly(ValueAt(args.values, k + 1)))
                  /\ ValueAt(args.values, k) # ValueAt(args.values, k + 1) =>
                        /\ DoubleLess(Exactly(ValueAt(args.values, k)), result.value)
                        /\ DoubleLess(result.value, Exactly(ValueAt(args.values, k + 1)))
            /\ args.percentile = 0 => result.value = Exactly(ValueAt(args.values, 0))
            /\ args.percentile = 100 => result.value = Exactly(ValueAt(args.values, n - 1))

\* the position 0.56 * 25 of a ramp of 26 values is the double above 14:
\* the helper returns the double above 15, not v[14] = 15
C27_Witness ==
    /\ PercentileDone
    /\ args.values = Ramp(ScenarioSize + 1, 1)
    /\ args.percentile = 56
    /\ result.value.fixed = Float(15)
    /\ result.value.eps > 0

\* the position 0.58 * 50 of a ramp of 51 values is the double below 29:
\* the helper returns the double below 30
C27_WitnessBelow ==
    /\ PercentileDone
    /\ Len(args.values) = 51
    /\ args.values[1] = Float(1)
    /\ args.values[2] = Float(2)
    /\ args.percentile = 58
    /\ result.value.fixed = Float(30)
    /\ result.value.eps < 0

\* a fractional position between two equal values: the helper returns the
\* value, which is not strictly between them
C27_WitnessEqual ==
    /\ PercentileDone
    /\ args.values = <<Float(2), Float(1), Float(1)>>
    /\ args.percentile = 25
    /\ result.value = Exactly(Float(1))

\* a fractional position between two different values
C27_WitnessStrictly ==
    /\ PercentileDone
    /\ args.values = <<Float(2), Float(1), Float(1)>>
    /\ args.percentile = 75
    /\ result.value = Exactly(Float(1) + Unit \div 2)

----------------------------------------------------------------------------
(* Claims about the groups of simulate_cost_impact.  The baseline of a     *)
(* group is written down here from the rows of the ledger and the indexes  *)
(* of the specification.                                                   *)

\* the rows of a pair the simulation is about, in the order of the ledger
EventsOfPair(pair) ==
    SelectSeq(ledger, LAMBDA row :
        /\ row.timestamp >= args.now - 30
        /\ args.feature = None \/ row.feature = Val(args.feature)
        /\ <<row.feature, row.model>> = pair)

\* the rows of a pair with the latest timestamp
MostRecentRows(pair) ==
    {i \in RowsOfPair(pair, args.now) :
        \A j \in RowsOfPair(pair, args.now) : ledger[j].timestamp <= ledger[i].timestamp}

\* the baseline of the specification for a list of events: WARM from 3
\* events on, with the values at the indexes n div 2 and floor(0.9 n) of the
\* sorted costs and tokens
IndexedBaseline(events) ==
    LET n == Len(events)
        costs == [i \in 1..n |-> Val(events[i].estimated_cost)]
        tokens == [i \in 1..n |-> Val(events[i].total_tokens)]
    IN  IF n >= 3
        THEN [state |-> "WARM",
              metrics |-> Some([median_cost |-> ValueAt(costs, n \div 2),
                                p90_cost |-> ValueAt(costs, (9 * n) \div 10),
                                median_tokens |-> ValueAt(tokens, n \div 2),
                                sample_count |-> n])]
        ELSE [state |-> "COLD", metrics |-> None]

\* the anomalies and the violations of a group whose current event is e
OutcomeWith(r, e) ==
    LET baseline == IndexedBaseline(EventsOfPair(<<r.feature, r.model>>))
        detected == IF baseline.state = "WARM"
                    THEN detect_anomalies(r.feature, r.model, baseline, e).anomalies
                    ELSE << >>
    IN  [anomalies |-> detected,
         violations |-> simulate_enforcement(args.config, baseline, e, detected)]

Outcome(r) == [anomalies |-> r.anomalies, violations |-> r.violations]

\* C28: for each (feature, model) group the current event of the anomaly
\* detection and of the enforcement is the most recent event of the group:
\* the anomalies and the violations of the group are those of an event with
\* the latest timestamp of the group.
C28_MostRecentEvent ==
    Undisturbed /\ result.kind = "return" =>
        \A k \in 1..Len(result.per_feature_results) :
            LET r == result.per_feature_results[k]
            IN  \E i \in MostRecentRows(<<r.feature, r.model>>) :
                    Outcome(r) = OutcomeWith(r, ledger[i])

BaselineFromEventsDone == pc = "done" /\ args.op = "create_baseline_from_events"

\* C29: the simulation baseline of a group is WARM exactly when the group
\* has at least 3 events; its metrics are then the values at the indexes
\* n div 2, floor(0.9 n) and n div 2 of the sorted costs, costs and tokens of
\* all events of the group, whatever their age; with fewer events it is COLD
\* without metrics, and the anomalies of the group are empty.
C29_IndexedBaseline ==
    /\ BaselineFromEventsDone =>
          /\ result.kind = "return"
          /\ result.state = IndexedBaseline(args.events).state
          /\ result.metrics = IndexedBaseline(args.events).metrics
    /\ Undisturbed /\ result.kind = "return" =>
          \A k \in 1..Len(result.per_feature_results) :
              LET r == result.per_feature_results[k]
                  pair == <<r.feature, r.model>>
              IN  /\ Cardinality(RowsOfPair(pair, args.now)) < 3 => r.anomalies = << >>
                  /\ r.anomalies = OutcomeWith(r, Representative(pair, args.now)).anomalies

\* a group of three events, all older than seven days: WARM, and the
\* expensive event among them is the p90
C29_Witness ==
    /\ BaselineFromEventsDone
    /\ Len(args.events) = 3
    /\ result.state = "WARM"
    /\ Val(result.metrics).p90_cost = Float(ExpensiveCost)
    /\ Val(result.metrics).median_cost = Float(1)

\* a group of two events: COLD, without metrics
C29_WitnessCold ==
    /\ BaselineFromEventsDone
    /\ Len(args.events) = 2
    /\ result.state = "COLD"
    /\ result.metrics = None

\* a group of two events whose current event is expensive: no anomalies
C29_WitnessNoDetection ==
    /\ Undisturbed
    /\ result.kind = "return"
    /\ Len(ledger) = 2
    /\ Len(result.per_feature_results) = 1
    /\ Val(Representative(<<"chat", "gpt-4">>, args.now).estimated_cost) = Float(ExpensiveCost)
    /\ result.per_feature_results[1].anomalies = << >>

\* the largest cost of a list of events
MaxCostOf(events) ==
    CHOOSE c \in {Val(events[i].estimated_cost) : i \in 1..Len(events)} :
        \A i \in 1..Len(events) : Val(events[i].estimated_cost) <= c

\* the anomalies of rule A among the anomalies of a result
RuleAOf(r) == {j \in 1..Len(r.anomalies) : r.anomalies[j].rule = "A"}

\* C30: for a group of 3 to 10 events the p90_cost of the simulation
\* baseline is the largest cost of the group; Rule A is not reported for
\* such a group, and without a ceiling no BLOCK, the action of a critical
\* anomaly, is recorded for a group of at most 10 events: a violation for a
\* critical anomaly arises only in groups of 11 or more.
C30_NoSpikeInSmallGroups ==
    /\ BaselineFromEventsDone /\ Len(args.events) \in 3..10 =>
          Val(result.metrics).p90_cost = MaxCostOf(args.events)
    /\ Undisturbed /\ result.kind = "return" =>
          \A k \in 1..Len(result.per_feature_results) :
              LET r == result.per_feature_results[k]
                  n == Cardinality(RowsOfPair(<<r.feature, r.model>>, args.now))
              IN  /\ n \in 3..10 => RuleAOf(r) = {}
                  /\ n <= 10 /\ args.config.max_cost_per_request = None =>
                        \A j \in 1..Len(r.violations) : r.violations[j][1] # "BLOCK"
                  /\ RuleAOf(r) # {} => n >= 11

\* a group of 10 events whose current event alone is expensive: no anomaly
C30_Witness ==
    /\ Undisturbed
    /\ result.kind = "return"
    /\ Len(ledger) = 10
    /\ Len(result.per_feature_results) = 1
    /\ Val(Representative(<<"chat", "gpt-4">>, args.now).estimated_cost) = Float(ExpensiveCost)
    /\ Cardinality({i \in 1..Len(ledger) : ledger[i].estimated_cost = Some(Float(1))}) = 9
    /\ result.per_feature_results[1].anomalies = << >>
    /\ result.per_feature_results[1].violations = << >>

\* a group of 11 events whose current event alone is expensive: Rule A is
\* reported and the violation of the critical anomaly is recorded
C30_WitnessEleven ==
    /\ Undisturbed
    /\ result.kind = "return"
    /\ Len(ledger) = 11
    /\ args.config.max_cost_per_request = None
    /\ Len(result.per_feature_results) = 1
    /\ RuleAOf(result.per_feature_results[1]) # {}
    /\ Len(result.per_feature_results[1].violations) = 1
    /\ result.per_feature_results[1].violations[1][1] = "BLOCK"

====
